---- MODULE Spec2Model ----
(***************************************************************************)
(* Sample indexing and on-disk caching layer of spinvae                    *)
(* (data/abstractbasedataset.py: AudioDataset, PresetDataset) and the      *)
(* configuration normalisation of config.py.                               *)
(*                                                                         *)
(* Python sequences are 0-based, TLA+ sequences 1-based: At(s, k) reads    *)
(* the Python element s[k].  Python's None is the string "None"; an        *)
(* exception raised by a method is the name of its class in the err field  *)
(* of the call record, "" meaning a normal return.                         *)
(***************************************************************************)
EXTENDS Integers, Sequences, FiniteSets, TLC

\* ------------------------------------------------------------------ bounds
\* Registry UIDs are 1..MaxPresets; a dataset holds at most MaxPresets of them.
MaxPresets == 2
\* Number of configured MIDI notes is 1..MaxNotes.
MaxNotes == 3
\* _nb_preset_variations_per_note is 1..MaxPresetVariations.
MaxPresetVariations == 2
\* _nb_audio_delay_variations_per_note is 1..MaxDelayVariations.
MaxDelayVariations == 2
\* Exclusion files of the exhaustive sweep have at most MaxFileLen characters.
MaxFileLen == 4

\* ----------------------------------------------------------------- helpers
Range(s) == {s[k] : k \in DOMAIN s}
At(s, k) == s[k + 1]
PyRange(n) == [k \in 1..n |-> k - 1]
InjectiveSeqs(S, n) ==
    {s \in UNION {[1..k -> S] : k \in 0..n} :
        \A a, b \in DOMAIN s : a # b => s[a] # s[b]}

\* config.py: ModelConfig.required_dataset_midi_notes, (pitch, velocity) pairs
required_dataset_midi_notes ==
    << <<41, 75>>, <<48, 75>>, <<56, 75>>, <<63, 75>>, <<56, 25>>, <<56, 127>> >>

RegistryUIDs == 1..MaxPresets
NoteLists == {SubSeq(required_dataset_midi_notes, 1, n) : n \in 1..MaxNotes}
UIDLists == InjectiveSeqs(RegistryUIDs, MaxPresets)
\* the scenario of 100 valid presets (UIDs 1001..1100) and 6 notes
ScenarioUIDs == [k \in 1..100 |-> 1000 + k]

VARIABLES
    model_config,      \* ModelConfig fields read by update_dynamic_config_params
    child_args,        \* what the concrete child class supplies to the constructor
    phase,             \* "new": not constructed, "ready": constructed, "rejected": ctor raised
    midi_notes,                          \* self.midi_notes
    multichannel_stacked_spectrograms,   \* self._multichannel_stacked_spectrograms
    data_augmentation,                   \* self._data_augmentation
    valid_preset_UIDs,                   \* self.valid_preset_UIDs
    last_variation,                      \* self._last_variation
    nb_preset_variations_per_note,       \* self._nb_preset_variations_per_note
    nb_audio_delay_variations_per_note,  \* self._nb_audio_delay_variations_per_note
    spec_files,        \* spectrogram cache: keys <<UID, pitch, vel, variation>> on disk
    preset_files,      \* learnable preset cache: keys <<UID, preset_variation>> on disk
    ret,               \* record of the last method call: op, arg, err, val
    excl_file,         \* characters of the <synth>_excluded_presets.txt file
    excl_ret,          \* result of the last excluded_patches_UIDs evaluation
    spectrogram_normalization,   \* self.spectrogram_normalization ("None" is None)
    spec_stats,        \* self.spec_stats: none, or the dict of the global stats
    stats_file,        \* SpecStats/<description>.json
    full_stats_file,   \* SpecStats/<description>_full.csv
    spec_tensor,       \* contents of the files of spec_files
    wav_files,         \* the rendered audio files get_wav_file reads
    compute,           \* position of compute_and_store_spectrograms_and_stats
    n_fft,             \* self.n_fft
    fft_hop,           \* self.fft_hop
    n_mel_bins,        \* self.n_mel_bins
    vst_param_learnable_model,   \* 'num', 'cat' or "None" for each VST parameter
    vst_param_cardinals,         \* get_preset_param_cardinality of each VST parameter
    vst_idx_to_matrix_row,       \* preset_indexes_helper._vst_idx_to_matrix_row
    learnable_tensors, \* get_full_preset_params(UID, variation).to_learnable_tensor()
    preset_tensor,     \* contents of the files of preset_files
    cat_params_stats_file        \* LearnableTensorPresets/cat_params_stats.dict.pkl

vars == << model_config, child_args, phase, midi_notes,
           multichannel_stacked_spectrograms, data_augmentation, valid_preset_UIDs,
           last_variation, nb_preset_variations_per_note,
           nb_audio_delay_variations_per_note, spec_files, preset_files, ret,
           excl_file, excl_ret, spectrogram_normalization, spec_stats, stats_file,
           full_stats_file, spec_tensor, wav_files, compute, n_fft, fft_hop,
           n_mel_bins, vst_param_learnable_model, vst_param_cardinals,
           vst_idx_to_matrix_row, learnable_tensors, preset_tensor,
           cat_params_stats_file >>

dataset_vars == << midi_notes, multichannel_stacked_spectrograms, data_augmentation,
                   valid_preset_UIDs >>
\* the transform arguments the object is constructed with, and what the concrete
\* child class and its collaborators define: fixed for the life of the object
transform_vars == << n_fft, fft_hop, n_mel_bins >>
synth_vars == << vst_param_learnable_model, vst_param_cardinals, vst_idx_to_matrix_row,
                 learnable_tensors >>
class_vars == << nb_preset_variations_per_note, nb_audio_delay_variations_per_note,
                 transform_vars, synth_vars >>
\* the LearnableTensorPresets folder
learnable_disk_vars == << preset_files, preset_tensor, cat_params_stats_file >>
disk_vars == << spec_files, learnable_disk_vars >>
excl_vars == << excl_file, excl_ret >>
stats_vars == << spectrogram_normalization, spec_stats, stats_file, full_stats_file >>
pipeline_vars == << spec_tensor, wav_files, compute >>

NoCall == [op |-> "none", arg |-> <<>>, err |-> "", val |-> <<>>]
NoExcl == [done |-> FALSE, err |-> "", UIDs |-> <<>>, warnings |-> <<>>]

\* ------------------------------------------------------- derived properties
midi_notes_per_preset == Len(midi_notes)
valid_presets_count == Len(valid_preset_UIDs)

\* PresetDataset.get_nb_variations_per_note (overrides AudioDataset's 1)
get_nb_variations_per_note ==
    nb_preset_variations_per_note * nb_audio_delay_variations_per_note

\* ----------------------------------------------------------- VariationCodec
get_variation_args_swapped(variation) ==
    IF variation < 0 \/ variation >= get_nb_variations_per_note
    THEN [err |-> "ValueError", val |-> <<>>]
    ELSE [err |-> "",
          val |-> << variation \div nb_preset_variations_per_note,
                     variation % nb_preset_variations_per_note >>]

get_variation_args_unchecked(variation) ==
    IF variation < 0 \/ variation > get_nb_variations_per_note
    THEN [err |-> "ValueError", val |-> <<>>]
    ELSE [err |-> "",
          val |-> << variation \div nb_audio_delay_variations_per_note,
                     variation % nb_audio_delay_variations_per_note >>]

get_variation_args(variation) ==
    IF variation < 0 \/ variation >= get_nb_variations_per_note
    THEN [err |-> "ValueError", val |-> <<>>]
    ELSE [err |-> "",
          val |-> << variation \div nb_audio_delay_variations_per_note,
                     variation % nb_audio_delay_variations_per_note >>]

get_variation_index_from_args_swapped(preset_variation, audio_delay) ==
    audio_delay + preset_variation * nb_preset_variations_per_note

get_variation_index_from_args(preset_variation, audio_delay) ==
    audio_delay + preset_variation * nb_audio_delay_variations_per_note

\* ------------------------------------------------------------- IndexMapper
AudioDataset_len_always_flat ==
    valid_presets_count * midi_notes_per_preset

AudioDataset_len ==
    IF multichannel_stacked_spectrograms
    THEN valid_presets_count
    ELSE valid_presets_count * midi_notes_per_preset

\* lines 139-145 of __getitem__: dataset index -> preset index and note indexes
getitem_indexes_shifted(i) ==
    IF midi_notes_per_preset > 1 /\ ~multichannel_stacked_spectrograms
    THEN [preset_index |-> i % midi_notes_per_preset,
          midi_note_indexes |-> << i \div midi_notes_per_preset >>]
    ELSE [preset_index |-> i,
          midi_note_indexes |-> PyRange(midi_notes_per_preset)]

getitem_indexes(i) ==
    IF midi_notes_per_preset > 1 /\ ~multichannel_stacked_spectrograms
    THEN [preset_index |-> i \div midi_notes_per_preset,
          midi_note_indexes |-> << i % midi_notes_per_preset >>]
    ELSE [preset_index |-> i,
          midi_note_indexes |-> PyRange(midi_notes_per_preset)]

\* list.index: position of the first occurrence, -1 standing for its ValueError
list_index(s, x) ==
    IF x \in Range(s)
    THEN (CHOOSE k \in DOMAIN s : s[k] = x /\ \A j \in 1..(k - 1) : s[j] # x) - 1
    ELSE -1

get_index_from_preset_UID_unscaled(preset_UID) ==
    LET index_in_valid_list == list_index(valid_preset_UIDs, preset_UID) IN
    IF index_in_valid_list = -1
    THEN [err |-> "ValueError", kind |-> "none", val |-> <<>>]
    ELSE IF midi_notes_per_preset > 1 /\ ~multichannel_stacked_spectrograms
         THEN [err |-> "", kind |-> "list",
               val |-> [k \in 1..midi_notes_per_preset |->
                           index_in_valid_list + (k - 1)]]
         ELSE [err |-> "", kind |-> "index", val |-> index_in_valid_list]

get_index_from_preset_UID_lenient(preset_UID) ==
    LET index_in_valid_list == list_index(valid_preset_UIDs, preset_UID) IN
    IF midi_notes_per_preset > 1 /\ ~multichannel_stacked_spectrograms
    THEN [err |-> "", kind |-> "list",
          val |-> [k \in 1..midi_notes_per_preset |->
                      index_in_valid_list * midi_notes_per_preset + (k - 1)]]
    ELSE [err |-> "", kind |-> "index", val |-> index_in_valid_list]

get_index_from_preset_UID(preset_UID) ==
    LET index_in_valid_list == list_index(valid_preset_UIDs, preset_UID) IN
    IF index_in_valid_list = -1
    THEN [err |-> "ValueError", kind |-> "none", val |-> <<>>]
    ELSE IF midi_notes_per_preset > 1 /\ ~multichannel_stacked_spectrograms
         THEN [err |-> "", kind |-> "list",
               val |-> [k \in 1..midi_notes_per_preset |->
                           index_in_valid_list * midi_notes_per_preset + (k - 1)]]
         ELSE [err |-> "", kind |-> "index", val |-> index_in_valid_list]

\* ---------------------------------------------------------- exclusion list
\* A text is a sequence of one-character strings.
IsSpace(c) == c \in {" ", "\t", "\n", "\r"}
DecimalDigits == << "0", "1", "2", "3", "4", "5", "6", "7", "8", "9" >>
IsDigit(c) == c \in Range(DecimalDigits)
DigitValue(c) == (CHOOSE k \in DOMAIN DecimalDigits : DecimalDigits[k] = c) - 1

\* position of the first occurrence of character c in text, 0 when there is none
Find(text, c) ==
    IF c \in Range(text)
    THEN CHOOSE k \in DOMAIN text : text[k] = c /\ \A j \in 1..(k - 1) : text[j] # c
    ELSE 0

\* f.readlines(): each line keeps its terminating "\n"
RECURSIVE readlines(_)
readlines(text) ==
    IF text = << >> THEN << >>
    ELSE LET nl == Find(text, "\n") IN
         IF nl = 0 THEN << text >>
         ELSE << SubSeq(text, 1, nl) >> \o readlines(SubSeq(text, nl + 1, Len(text)))

\* l.rstrip("\n")
RECURSIVE rstrip_newline(_)
rstrip_newline(l) ==
    IF l # << >> /\ l[Len(l)] = "\n"
    THEN rstrip_newline(SubSeq(l, 1, Len(l) - 1))
    ELSE l

\* line.split(',')
RECURSIVE split(_, _)
split(line, sep) ==
    LET pos == Find(line, sep) IN
    IF pos = 0 THEN << line >>
    ELSE << SubSeq(line, 1, pos - 1) >> \o split(SubSeq(line, pos + 1, Len(line)), sep)

\* word.strip()
RECURSIVE strip(_)
strip(word) ==
    IF word = << >> THEN word
    ELSE IF IsSpace(Head(word)) THEN strip(Tail(word))
    ELSE IF IsSpace(word[Len(word)]) THEN strip(SubSeq(word, 1, Len(word) - 1))
    ELSE word

RECURSIVE digits_value(_, _)
digits_value(word, acc) ==
    IF word = << >> THEN acc
    ELSE digits_value(Tail(word), 10 * acc + DigitValue(Head(word)))

\* int(word) of a stripped word: an optional sign and one or more decimal digits,
\* ValueError otherwise (the modelled character set has no '_' digit separator)
int(word) ==
    LET signed == word # << >> /\ Head(word) \in {"+", "-"}
        body == IF signed THEN Tail(word) ELSE word
    IN  IF body = << >> \/ \E k \in DOMAIN body : ~IsDigit(body[k])
        THEN [err |-> "ValueError", val |-> 0]
        ELSE [err |-> "",
              val |-> IF signed /\ Head(word) = "-"
                      THEN 0 - digits_value(body, 0) ELSE digits_value(body, 0)]

\* lines 195-201: the words of one line; acc is (excluded_UIDs, warnings raised)
RECURSIVE parse_words_abort_line(_, _, _, _)
parse_words_abort_line(words, line_no, line, acc) ==
    IF words = << >> THEN acc
    ELSE LET UID == int(strip(Head(words))) IN
         IF UID.err = ""
         THEN parse_words_abort_line(Tail(words), line_no, line,
                    [acc EXCEPT !.UIDs = Append(@, UID.val)])
         ELSE [acc EXCEPT !.warnings = Append(@, << line_no, line >>)]

RECURSIVE parse_words_loop(_, _, _, _)
parse_words_loop(words, line_no, line, acc) ==
    IF words = << >> THEN acc
    ELSE LET UID == int(strip(Head(words))) IN
         parse_words_loop(Tail(words), line_no, line,
             IF UID.err = ""
             THEN [acc EXCEPT !.UIDs = Append(@, UID.val)]
             ELSE [acc EXCEPT !.warnings = Append(@, << line_no, line >>)])

parse_words(words, line_no, line, acc) ==
    parse_words_loop(words, line_no, line, acc)

\* line 193: the lines that are parsed
is_data_line(line) == Len(line) > 0 /\ line[1] # "#"

\* lines 192-201: enumerate(lines), i is the 0-based line index
RECURSIVE parse_lines(_, _, _)
parse_lines(lines, i, acc) ==
    IF i >= Len(lines) THEN acc
    ELSE LET line == At(lines, i) IN
         parse_lines(lines, i + 1,
             IF is_data_line(line)
             THEN parse_words(split(line, ","), i + 1, line, acc)
             ELSE acc)

\* the excluded_patches_UIDs property
excluded_patches_UIDs(file) ==
    IF ~file.exists
    THEN [done |-> TRUE, err |-> "", UIDs |-> << >>,
          warnings |-> << << 0, << >> >> >>]
    ELSE LET lines == [k \in DOMAIN readlines(file.text) |->
                          rstrip_newline(readlines(file.text)[k])]
             out == parse_lines(lines, 0, [UIDs |-> << >>, warnings |-> << >>])
         IN  [done |-> TRUE, err |-> "", UIDs |-> out.UIDs, warnings |-> out.warnings]

\* ----------------------------------------------------------------- numbers
\* Floating-point values are modelled exactly.  A quotient << n, d >> with d > 0
\* in lowest terms is the rational n/d; << 1, 0 >>, << -1, 0 >> and << 0, 0 >>
\* are the IEEE results inf, -inf and nan of a division by zero.
Abs(n) == IF n < 0 THEN -n ELSE n
Sign(n) == IF n < 0 THEN -1 ELSE IF n > 0 THEN 1 ELSE 0

RECURSIVE Gcd(_, _)
Gcd(a, b) == IF b = 0 THEN a ELSE Gcd(b, a % b)

Q(n, d) ==
    IF d = 0 THEN << Sign(n), 0 >>
    ELSE LET g == Gcd(Abs(n), Abs(d)) IN << (Sign(d) * n) \div g, Abs(d) \div g >>

QZero == << 0, 1 >>
QOne == << 1, 1 >>
QNaN == << 0, 0 >>
QIsFinite(x) == x[2] # 0
QNeg(x) == << -x[1], x[2] >>
\* the sum over the least common denominator
QAdd(x, y) ==
    IF x[2] = 0 /\ y[2] = 0
    THEN (IF x = y THEN x ELSE QNaN)
    ELSE IF x[2] = 0 THEN x
    ELSE IF y[2] = 0 THEN y
    ELSE LET g == Gcd(x[2], y[2]) IN
         Q(x[1] * (y[2] \div g) + y[1] * (x[2] \div g), (x[2] \div g) * y[2])
QSub(x, y) == QAdd(x, QNeg(y))
QMul(x, y) == Q(x[1] * y[1], x[2] * y[2])
QDiv(x, y) == Q(x[1] * y[2] * Sign(y[1]), x[2] * Abs(y[1]))
\* p/q <= r/s for p, r >= 0 and q, s > 0, by integer parts and then by the
\* reciprocals of the fractional parts (no product is formed)
RECURSIVE FractionLe(_, _, _, _)
FractionLe(p, q, r, s) ==
    IF p \div q # r \div s THEN p \div q < r \div s
    ELSE IF p % q = 0 THEN TRUE
    ELSE IF r % s = 0 THEN FALSE
    ELSE FractionLe(s, r % s, q, p % q)
\* comparisons are False as soon as one side is nan
QLe(x, y) ==
    /\ x # QNaN /\ y # QNaN
    /\ \/ x = y
       \/ x = << -1, 0 >>
       \/ y = << 1, 0 >>
       \/ /\ QIsFinite(x) /\ QIsFinite(y)
          /\ IF x[1] < 0 /\ y[1] < 0 THEN FractionLe(-y[1], y[2], -x[1], x[2])
             ELSE IF x[1] < 0 \/ y[1] < 0 THEN x[1] < 0
             ELSE FractionLe(x[1], x[2], y[1], y[2])
QAbs(x) == << Abs(x[1]), x[2] >>

\* the least k >= from with k * k >= n
RECURSIVE RootFrom(_, _)
RootFrom(n, from) == IF from * from >= n THEN from ELSE RootFrom(n, from + 1)
IntSqrt(n) == RootFrom(n, 0)
IsSquare(n) == IntSqrt(n) * IntSqrt(n) = n

\* A value << a, b, r >> is the real number a + b * sqrt(r): a and b are quotients
\* and r is the one radicand in play (the mean of the per-item variances), QZero
\* when b is QZero.
Num(q) == << q, QZero, QZero >>
Whole(n) == Num(Q(n, 1))
IsRational(x) == x[2] = QZero
Radicand(x, y) == IF IsRational(x) THEN y[3] ELSE x[3]
Surd(a, b, r) == IF b = QZero THEN Num(a) ELSE << a, b, r >>

Add(x, y) == Surd(QAdd(x[1], y[1]), QAdd(x[2], y[2]), Radicand(x, y))
Neg(x) == << QNeg(x[1]), QNeg(x[2]), x[3] >>
Sub(x, y) == Add(x, Neg(y))
Mul(x, y) ==
    IF IsRational(x) /\ IsRational(y) THEN Num(QMul(x[1], y[1]))
    ELSE LET r == Radicand(x, y) IN
         Surd(QAdd(QMul(x[1], y[1]), QMul(QMul(x[2], y[2]), r)),
              QAdd(QMul(x[1], y[2]), QMul(x[2], y[1])), r)
\* x / y: by a rational directly, otherwise through the conjugate of y
Div(x, y) ==
    IF IsRational(y)
    THEN Surd(QDiv(x[1], y[1]),
              IF IsRational(x) THEN QZero ELSE QDiv(x[2], y[1]), x[3])
    ELSE LET norm == QSub(QMul(y[1], y[1]), QMul(QMul(y[2], y[2]), y[3]))
             p == Mul(x, << y[1], QNeg(y[2]), y[3] >>)
         IN  Surd(QDiv(p[1], norm), QDiv(p[2], norm), y[3])
IsFinite(x) == QIsFinite(x[1]) /\ QIsFinite(x[2])

\* np.sqrt of a rational
np_sqrt(q) ==
    IF ~QIsFinite(q) THEN Num(IF q = << 1, 0 >> THEN q ELSE QNaN)
    ELSE IF q[1] < 0 THEN Num(QNaN)
    ELSE IF IsSquare(q[1]) /\ IsSquare(q[2]) THEN Num(Q(IntSqrt(q[1]), IntSqrt(q[2])))
    ELSE << QZero, QOne, q >>

\* ----------------------------------------------------------------- tensors
\* A tensor is the sequence of its elements.
RECURSIVE SeqSum(_)
SeqSum(s) == IF s = << >> THEN Whole(0) ELSE Add(s[1], SeqSum(Tail(s)))

RECURSIVE SeqMin(_)
SeqMin(s) ==
    IF Len(s) = 1 THEN s[1]
    ELSE LET m == SeqMin(Tail(s)) IN IF QLe(s[1][1], m[1]) THEN s[1] ELSE m

RECURSIVE SeqMax(_)
SeqMax(s) ==
    IF Len(s) = 1 THEN s[1]
    ELSE LET m == SeqMax(Tail(s)) IN IF QLe(m[1], s[1][1]) THEN s[1] ELSE m

\* numpy and torch mean: the sum over the number of elements (nan when empty)
np_mean(s) == Div(SeqSum(s), Whole(Len(s)))
\* torch.var: the unbiased estimate, nan for a single element
torch_var(s) ==
    LET m == np_mean(s) IN
    Div(SeqSum([k \in DOMAIN s |-> Mul(Sub(s[k], m), Sub(s[k], m))]), Whole(Len(s) - 1))

\* ------------------------------------------------------------------ caches
\* get_spec_file_path: one file per (UID, pitch, velocity, variation)
spec_key(preset_UID, midi_note, variation) ==
    << preset_UID, midi_note[1], midi_note[2], variation >>

AllSpecKeys(uids, notes, nb_variations) ==
    {spec_key(u, n, v) : u \in Range(uids), n \in Range(notes),
                         v \in 0..(nb_variations - 1)}

\* _get_learnable_preset_file_path: one file per (UID, preset_variation)
AllPresetKeys(uids, nb_preset_variations) ==
    {<< u, pv >> : u \in Range(uids), pv \in 0..(nb_preset_variations - 1)}

\* ------------------------------------------------------- spectrogram stats
\* self.compute_spectrogram.min_dB and self.Fs
min_dB == -120
sampling_rate == 16000

expected_keys == << "min", "max", "mean", "std" >>
NormalizationModes == {"min_max", "mean_std", "None", "log"}

EmptyDict == [k \in {} |-> QZero]
NoStats == [none |-> TRUE, dict |-> EmptyDict]
LoadedStats(d) == [none |-> FALSE, dict |-> d]
AbsentStatsFile == [exists |-> FALSE, empty |-> TRUE, dict |-> EmptyDict, run |-> 0]
AbsentFullStatsFile == [exists |-> FALSE, empty |-> TRUE, rows |-> << >>, run |-> 0]

load_spectrogram_stats_two_keys(normalization, stats, file) ==
    IF normalization = "None" THEN [err |-> "", spec_stats |-> stats]
    ELSE IF ~file.exists THEN [err |-> "FileNotFoundError", spec_stats |-> NoStats]
    ELSE IF file.empty THEN [err |-> "JSONDecodeError", spec_stats |-> stats]
    ELSE IF \E k \in {"min", "max"} : k \notin DOMAIN file.dict
    THEN [err |-> "ValueError: Missing key", spec_stats |-> LoadedStats(file.dict)]
    ELSE [err |-> "", spec_stats |-> LoadedStats(file.dict)]

\* _load_spectrogram_stats: the error raised and the value self.spec_stats has
\* afterwards.  json.load of an empty file raises before the assignment.
load_spectrogram_stats(normalization, stats, file) ==
    IF normalization = "None" THEN [err |-> "", spec_stats |-> stats]
    ELSE IF ~file.exists THEN [err |-> "FileNotFoundError", spec_stats |-> NoStats]
    ELSE IF file.empty THEN [err |-> "JSONDecodeError", spec_stats |-> stats]
    ELSE IF \E k \in Range(expected_keys) : k \notin DOMAIN file.dict
    THEN [err |-> "ValueError: Missing key", spec_stats |-> LoadedStats(file.dict)]
    ELSE [err |-> "", spec_stats |-> LoadedStats(file.dict)]

HasKeys(stats, keys) == \A k \in keys : k \in DOMAIN stats.dict

normalize_spectrogram_doubled(spectrogram, normalization, stats, file) ==
    LET ld == IF normalization # "None" /\ stats.none
              THEN load_spectrogram_stats(normalization, stats, file)
              ELSE [err |-> "", spec_stats |-> stats]
    IN  [err |-> ld.err, spec_stats |-> ld.spec_stats,
         val |-> [k \in DOMAIN spectrogram |-> Add(spectrogram[k], spectrogram[k])]]

normalize_spectrogram_unit(spectrogram, normalization, stats, file) ==
    LET ld == IF normalization # "None" /\ stats.none
              THEN load_spectrogram_stats(normalization, stats, file)
              ELSE [err |-> "", spec_stats |-> stats]
        st == ld.spec_stats
    IN  [err |-> ld.err, spec_stats |-> st,
         val |-> IF normalization = "min_max"
                 THEN [k \in DOMAIN spectrogram |->
                          Div(Sub(spectrogram[k], st.dict["min"]),
                              Sub(st.dict["max"], st.dict["min"]))]
                 ELSE spectrogram]

\* normalize_spectrogram: the error raised, the tensor returned, and self.spec_stats
normalize_spectrogram(spectrogram, normalization, stats, file) ==
    LET ld == IF normalization # "None" /\ stats.none
              THEN load_spectrogram_stats(normalization, stats, file)
              ELSE [err |-> "", spec_stats |-> stats]
        st == ld.spec_stats
        fail(e) == [err |-> e, val |-> << >>, spec_stats |-> st]
    IN  IF ld.err # "" THEN fail(ld.err)
        ELSE IF normalization = "min_max"
        THEN IF ~HasKeys(st, {"min", "max"}) THEN fail("KeyError")
             ELSE [err |-> "", spec_stats |-> st,
                   val |-> [k \in DOMAIN spectrogram |->
                       Add(Whole(-1),
                           Div(Sub(spectrogram[k], st.dict["min"]),
                               Div(Sub(st.dict["max"], st.dict["min"]), Whole(2))))]]
        ELSE IF normalization = "mean_std"
        THEN IF ~HasKeys(st, {"mean", "std"}) THEN fail("KeyError")
             ELSE [err |-> "", spec_stats |-> st,
                   val |-> [k \in DOMAIN spectrogram |->
                       Div(Sub(spectrogram[k], st.dict["mean"]), st.dict["std"])]]
        ELSE IF normalization = "None"
        THEN [err |-> "", spec_stats |-> st, val |-> spectrogram]
        ELSE fail("ValueError: Cannot perform spectrogram normalization")

denormalize_spectrogram_no_offset(spectrogram, normalization, stats, file) ==
    LET ld == IF normalization # "None" /\ stats.none
              THEN load_spectrogram_stats(normalization, stats, file)
              ELSE [err |-> "", spec_stats |-> stats]
    IN  [err |-> ld.err, spec_stats |-> ld.spec_stats,
         val |-> [k \in DOMAIN spectrogram |-> Add(spectrogram[k], Whole(1))]]

\* denormalize_spectrogram
denormalize_spectrogram(spectrogram, normalization, stats, file) ==
    LET ld == IF normalization # "None" /\ stats.none
              THEN load_spectrogram_stats(normalization, stats, file)
              ELSE [err |-> "", spec_stats |-> stats]
        st == ld.spec_stats
        fail(e) == [err |-> e, val |-> << >>, spec_stats |-> st]
    IN  IF ld.err # "" THEN fail(ld.err)
        ELSE IF normalization = "min_max"
        THEN IF ~HasKeys(st, {"min", "max"}) THEN fail("KeyError")
             ELSE [err |-> "", spec_stats |-> st,
                   val |-> [k \in DOMAIN spectrogram |->
                       Add(Mul(Add(spectrogram[k], Whole(1)),
                               Div(Sub(st.dict["max"], st.dict["min"]), Whole(2))),
                           st.dict["min"])]]
        ELSE IF normalization = "mean_std"
        THEN IF ~HasKeys(st, {"mean", "std"}) THEN fail("KeyError")
             ELSE [err |-> "", spec_stats |-> st,
                   val |-> [k \in DOMAIN spectrogram |->
                       Add(Mul(spectrogram[k], st.dict["std"]), st.dict["mean"])]]
        ELSE IF normalization = "None"
        THEN [err |-> "", spec_stats |-> st, val |-> spectrogram]
        ELSE fail("ValueError: Cannot undo spectrogram normalization")

\* An entry of the spectrogram cache: the tensor stored, and for the record the
\* raw tensor it was computed from, the generation that wrote it and the number
\* of times _normalize_spectrograms rewrote it.
EarlierStats == [min |-> Whole(-120), max |-> Whole(0), mean |-> Whole(-60),
                 std |-> Whole(30)]
EarlierEntry(normalization) ==
    [value |-> IF normalization \in {"min_max", "mean_std"}
               THEN << Whole(0) >> ELSE << Whole(-60) >>,
     raw |-> << Whole(-60) >>, run |-> 0,
     normalized |-> IF normalization = "log" THEN 0 ELSE 1]
EarlierStatsFile == [exists |-> TRUE, empty |-> FALSE, dict |-> EarlierStats, run |-> 0]
EarlierFullStatsFile ==
    [exists |-> TRUE, empty |-> FALSE,
     rows |-> << [UID |-> 1, min |-> Whole(-60), max |-> Whole(-60),
                  mean |-> Whole(-60), std |-> Whole(0)] >>,
     run |-> 0]
NoWavFiles == [k \in {} |-> 0]
\* what the call before the current one left: nothing when there was none
NoGeneration == [run |-> 0, values |-> << >>, stats |-> EmptyDict, rows |-> << >>]
IdleCompute ==
    [pc |-> "idle", stage |-> "", i |-> 0, full_stats |-> << >>, run |-> 0,
     before |-> {}, err |-> "", previous |-> NoGeneration]

\* ------------------------------------------------- spectrogram description
\* Strings are sequences of one-character strings, as in the exclusion list.
RECURSIVE decimal(_)
decimal(n) ==
    IF n < 10 THEN << DecimalDigits[n + 1] >>
    ELSE decimal(n \div 10) \o << DecimalDigits[(n % 10) + 1] >>

\* '{:04d}'.format(n): the sign, zeros up to a width of 4, the decimal digits
format_04d(n) ==
    LET sign == IF n < 0 THEN << "-" >> ELSE << >>
        digits == decimal(Abs(n))
        zeros == [k \in 1..(4 - Len(sign) - Len(digits)) |-> "0"]
    IN  sign \o zeros \o digits

\* the characters of the name of a normalization mode
ModeChars(normalization) ==
    CASE normalization = "min_max" -> << "m", "i", "n", "_", "m", "a", "x" >>
      [] normalization = "mean_std" -> << "m", "e", "a", "n", "_", "s", "t", "d" >>
      [] normalization = "log" -> << "l", "o", "g" >>
      [] normalization = "None" -> << "N", "o", "n", "e" >>

spectrogram_description_no_hop(fft, hop, mel_bins, normalization) ==
    << "n", "f", "f", "t" >> \o format_04d(fft) \o << "h", "o", "p" >> \o << "m", "e", "l", "s" >>
        \o (IF mel_bins <= 0 THEN << "N", "o", "n", "e" >> ELSE format_04d(mel_bins))
        \o << "_", "n", "o", "r", "m", "_" >> \o ModeChars(normalization)

\* the _spectrogram_description property
spectrogram_description(fft, hop, mel_bins, normalization) ==
    << "n", "f", "f", "t" >> \o format_04d(fft) \o << "h", "o", "p" >> \o format_04d(hop) \o << "m", "e", "l", "s" >>
        \o (IF mel_bins <= 0 THEN << "N", "o", "n", "e" >> ELSE format_04d(mel_bins))
        \o << "_", "n", "o", "r", "m", "_" >> \o (IF normalization = "None" THEN << "N", "o", "n", "e" >> ELSE ModeChars(normalization))

\* _spectrograms_folder, _spectrogram_stats_file and _spectrogram_full_stats_file:
\* the last component of the path
spectrograms_folder(description) == << "S", "p", "e", "c", "s", "_" >> \o description
spectrogram_stats_file(description) == description \o << ".", "j", "s", "o", "n" >>
spectrogram_full_stats_file(description) == description \o << "_", "f", "u", "l", "l", ".", "c", "s", "v" >>

\* -------------------------------------------------- defaults of the inputs
\* config.py: stft_args and mel_bins
DefaultTransform == n_fft = 512 /\ fft_hop = 256 /\ n_mel_bins = -1

\* a synthesizer without parameters
NoSynthParams ==
    /\ vst_param_learnable_model = << >>
    /\ vst_param_cardinals = << >>
    /\ vst_idx_to_matrix_row = << >>
    /\ learnable_tensors = [k \in AllPresetKeys(child_args.valid_preset_UIDs,
                                                 nb_preset_variations_per_note) |-> << >>]

\* An entry of the learnable-preset cache: the tensor stored and, for the
\* record, the number of the call that wrote it (0: before the first call).
EarlierPresetEntry == [value |-> << >>, run |-> 0]
AbsentCatStatsFile == [exists |-> FALSE, dict |-> << >>, run |-> 0]
EarlierCatStatsFile == [exists |-> TRUE, dict |-> << >>, run |-> 0]
\* the folder as an earlier generation left it, or absent
EarlierLearnablePresets ==
    /\ preset_tensor = [k \in preset_files |-> EarlierPresetEntry]
    /\ cat_params_stats_file = IF preset_files = {} THEN AbsentCatStatsFile
                                ELSE EarlierCatStatsFile

\* ------------------------------------------------------------ configuration
BoolStr(b) == IF b THEN "True" ELSE "False"

SweepInit ==
    /\ model_config \in [midi_notes : NoteLists, stack_spectrograms : BOOLEAN,
                         increased_dataset_size : {"None"}, concat_midi_to_z : {"None"}]
    /\ child_args \in [valid_preset_UIDs : UIDLists, data_augmentation : BOOLEAN]
    /\ nb_preset_variations_per_note \in 1..MaxPresetVariations
    /\ nb_audio_delay_variations_per_note \in 1..MaxDelayVariations

ScenarioInit ==
    /\ model_config \in [midi_notes : {required_dataset_midi_notes},
                         stack_spectrograms : BOOLEAN,
                         increased_dataset_size : {"None"}, concat_midi_to_z : {"None"}]
    /\ child_args = [valid_preset_UIDs |-> ScenarioUIDs, data_augmentation |-> FALSE]
    /\ nb_preset_variations_per_note = 1
    /\ nb_audio_delay_variations_per_note = 1

\* The dataset object does not exist yet; the caches on disk are either those
\* of an earlier complete generation for this configuration, or absent.
Init ==
    /\ SweepInit \/ ScenarioInit
    /\ phase = "new"
    /\ midi_notes = << >>
    /\ multichannel_stacked_spectrograms = FALSE
    /\ data_augmentation = FALSE
    /\ valid_preset_UIDs = << >>
    /\ last_variation = -1
    /\ \E generated \in BOOLEAN :
          /\ spec_files = IF generated
                          THEN AllSpecKeys(child_args.valid_preset_UIDs,
                                           model_config.midi_notes,
                                           get_nb_variations_per_note)
                          ELSE {}
          /\ preset_files = IF generated
                            THEN AllPresetKeys(child_args.valid_preset_UIDs,
                                               nb_preset_variations_per_note)
                            ELSE {}
          /\ stats_file = IF generated THEN EarlierStatsFile ELSE AbsentStatsFile
          /\ full_stats_file = IF generated THEN EarlierFullStatsFile
                                ELSE AbsentFullStatsFile
    /\ EarlierLearnablePresets
    /\ DefaultTransform
    /\ NoSynthParams
    /\ spectrogram_normalization = "min_max"
    /\ spec_tensor = [k \in spec_files |-> EarlierEntry(spectrogram_normalization)]
    /\ spec_stats = NoStats
    /\ wav_files = NoWavFiles
    /\ compute = IdleCompute
    /\ ret = NoCall
    /\ excl_file = [exists |-> FALSE, text |-> << >>]
    /\ excl_ret = NoExcl

\* config.py lines 271-275 (the fields of ModelConfig the dataset layer reads)
update_dynamic_config_params ==
    /\ phase = "new"
    /\ LET stack == model_config.stack_spectrograms
                        /\ Len(model_config.midi_notes) > 1
           increased == Len(model_config.midi_notes) > 1 /\ ~stack
       IN  model_config' = [model_config EXCEPT
                               !.stack_spectrograms = stack,
                               !.increased_dataset_size = BoolStr(increased),
                               !.concat_midi_to_z = BoolStr(increased)]
    /\ UNCHANGED << child_args, phase, dataset_vars, last_variation, class_vars,
                    disk_vars, ret, excl_vars, stats_vars, pipeline_vars >>

\* ------------------------------------------------------------- construction
ctor_check_missing(notes, stacked) == TRUE

\* lines 81-82: a 1-note dataset asserts that stacking was not requested
ctor_check(notes, stacked) ==
    IF Len(notes) = 1 THEN ~stacked ELSE TRUE

\* AudioDataset.__init__ through PresetDataset.__init__, followed by the concrete
\* child class assigning valid_preset_UIDs
PresetDataset_init ==
    /\ phase = "new"
    /\ IF ctor_check(model_config.midi_notes, model_config.stack_spectrograms)
       THEN /\ phase' = "ready"
            /\ midi_notes' = model_config.midi_notes
            /\ multichannel_stacked_spectrograms' = model_config.stack_spectrograms
            /\ data_augmentation' = child_args.data_augmentation
            /\ valid_preset_UIDs' = child_args.valid_preset_UIDs
            /\ last_variation' = -1
            /\ ret' = [op |-> "__init__", arg |-> << >>, err |-> "", val |-> << >>]
       ELSE /\ phase' = "rejected"
            /\ ret' = [op |-> "__init__", arg |-> << >>, err |-> "AssertionError",
                       val |-> << >>]
            /\ UNCHANGED << dataset_vars, last_variation >>
    /\ UNCHANGED << model_config, child_args, class_vars, disk_vars, excl_vars,
                    stats_vars, pipeline_vars >>

\* ------------------------------------------------------------- method calls
\* Arguments of the calls.  Every index of a swept dataset is tried, and one index
\* past its end; of the 100-preset scenario the first indexes, index 150, the
\* last index and the one past it.
CallIndexes ==
    {i \in 0..AudioDataset_len :
        i <= MaxPresets * MaxNotes \/ i \in {150, AudioDataset_len - 1, AudioDataset_len}}

\* UID 0 is in no registry; of the scenario, the UIDs at positions 25 and 99.
CallUIDs ==
    (0..MaxPresets) \cup (Range(valid_preset_UIDs) \cap {1026, 1100})

Frame == UNCHANGED << model_config, child_args, phase, dataset_vars, class_vars,
                      disk_vars, excl_vars, stats_vars, pipeline_vars >>

Call_len ==
    /\ phase = "ready"
    /\ ret = NoCall
    /\ ret' = [op |-> "__len__", arg |-> << >>, err |-> "", val |-> AudioDataset_len]
    /\ UNCHANGED last_variation
    /\ Frame

Call_get_index_from_preset_UID ==
    /\ phase = "ready"
    /\ ret = NoCall
    /\ \E preset_UID \in CallUIDs :
          LET r == get_index_from_preset_UID(preset_UID) IN
          ret' = [op |-> "get_index_from_preset_UID", arg |-> << preset_UID >>,
                  err |-> r.err, val |-> [kind |-> r.kind, indexes |-> r.val]]
    /\ UNCHANGED last_variation
    /\ Frame

Call_get_variation_args ==
    /\ phase = "ready"
    /\ ret = NoCall
    /\ \E variation \in (-1)..(MaxPresetVariations * MaxDelayVariations) :
          LET r == get_variation_args(variation) IN
          ret' = [op |-> "_get_variation_args", arg |-> << variation >>,
                  err |-> r.err, val |-> r.val]
    /\ UNCHANGED last_variation
    /\ Frame

Call_get_variation_index_from_args ==
    /\ phase = "ready"
    /\ ret = NoCall
    /\ \E preset_variation \in 0..MaxPresetVariations,
          audio_delay \in 0..MaxDelayVariations :
          ret' = [op |-> "_get_variation_index_from_args",
                  arg |-> << preset_variation, audio_delay >>, err |-> "",
                  val |-> get_variation_index_from_args(preset_variation, audio_delay)]
    /\ UNCHANGED last_variation
    /\ Frame

rng_integers_endpoint(low, high) == low..high

\* self._rng.integers(low, high): the values that can be drawn, high excluded
rng_integers(low, high) == low..(high - 1)

torch_load_consuming(folder, paths) == folder \ paths

\* torch.load of the files 'paths' of a folder: the folder as it is afterwards
torch_load(folder, paths) == folder

\* PresetDataset.__getitem__(i), AudioDataset.__getitem__ included; drawn is the
\* value self._rng.integers(0, nb_variations) returns
PresetDataset_getitem(i, drawn) ==
    LET idx == getitem_indexes(i) IN
    IF idx.preset_index >= valid_presets_count
    THEN /\ ret' = [op |-> "__getitem__", arg |-> << i >>, err |-> "IndexError",
                    val |-> << >>]
         /\ UNCHANGED << last_variation, spec_files, spec_tensor, preset_files,
                         preset_tensor >>
    ELSE LET preset_UID == At(valid_preset_UIDs, idx.preset_index)
             variation == IF data_augmentation THEN drawn ELSE 0
             notes == [k \in DOMAIN idx.midi_note_indexes |->
                          At(midi_notes, idx.midi_note_indexes[k])]
             files == [k \in DOMAIN notes |-> spec_key(preset_UID, notes[k], variation)]
             args == get_variation_args(variation)
             \* the spectrogram files read before the first one that is missing
             loaded == {files[k] : k \in {n \in DOMAIN files :
                                             \A j \in 1..n : files[j] \in spec_files}}
             all_loaded == \A k \in DOMAIN files : files[k] \in spec_files
         IN  /\ last_variation' = variation
             /\ spec_files' = torch_load(spec_files, loaded)
             /\ spec_tensor' = [k \in spec_files' |-> spec_tensor[k]]
             /\ preset_files' =
                   IF all_loaded /\ args.err = ""
                   THEN torch_load(preset_files,
                                   {<< preset_UID, args.val[1] >>} \cap preset_files)
                   ELSE preset_files
             /\ preset_tensor' = [k \in preset_files' |-> preset_tensor[k]]
             /\ IF \E k \in DOMAIN files : files[k] \notin spec_files
                THEN ret' = [op |-> "__getitem__", arg |-> << i >>,
                             err |-> "FileNotFoundError",
                             val |-> files[CHOOSE k \in DOMAIN files :
                                              /\ files[k] \notin spec_files
                                              /\ \A j \in 1..(k - 1) :
                                                    files[j] \in spec_files]]
                ELSE IF args.err # ""
                THEN ret' = [op |-> "__getitem__", arg |-> << i >>,
                             err |-> args.err, val |-> << >>]
                ELSE IF << preset_UID, args.val[1] >> \notin preset_files
                THEN ret' = [op |-> "__getitem__", arg |-> << i >>,
                             err |-> "FileNotFoundError",
                             val |-> << preset_UID, args.val[1] >>]
                ELSE ret' = [op |-> "__getitem__", arg |-> << i >>, err |-> "",
                             val |-> [spectrograms |-> files,
                                      tensors |-> [k \in DOMAIN files |->
                                                      spec_tensor[files[k]]],
                                      preset_params |-> << preset_UID, args.val[1] >>,
                                      uid |-> preset_UID,
                                      notes |-> notes,
                                      labels |-> << 1 >>]]

\* what no statement of __getitem__ assigns
GetitemFrame ==
    UNCHANGED << model_config, child_args, phase, dataset_vars, class_vars,
                 excl_vars, stats_vars, wav_files, compute, cat_params_stats_file >>

Call_getitem ==
    /\ phase = "ready"
    /\ ret = NoCall
    /\ \E i \in CallIndexes :
       \E drawn \in (IF data_augmentation
                     THEN rng_integers(0, get_nb_variations_per_note) ELSE {0}) :
          PresetDataset_getitem(i, drawn)
    /\ GetitemFrame

\* The caller takes the value (or catches the exception) of the call that ended;
\* the dataset serves one call at a time.
Caller_takes_result ==
    /\ ret # NoCall
    /\ ret' = NoCall
    /\ UNCHANGED last_variation
    /\ Frame

\* ------------------------------------------------- spectrogram generation
MaxTriples == 3

\* utils.torchspectrograms: a log-scale spectrogram, floored at min_dB.  A
\* waveform is given by the dB levels of its bins before the floor.
compute_spectrogram(x_wav) ==
    [k \in DOMAIN x_wav |-> Whole(IF x_wav[k] < min_dB THEN min_dB ELSE x_wav[k])]

nb_valid_audio_files ==
    valid_presets_count * get_nb_variations_per_note * Len(midi_notes)

compute_triple_reversed(i) ==
    LET j == nb_valid_audio_files - 1 - i
        per_preset == Len(midi_notes) * get_nb_variations_per_note
    IN  [UID |-> At(valid_preset_UIDs, j \div per_preset),
         midi_note |-> At(midi_notes, (j % per_preset) \div get_nb_variations_per_note),
         variation |-> j % get_nb_variations_per_note]

\* the i-th triple of the loops over valid_preset_UIDs, midi_notes and
\* range(get_nb_variations_per_note(preset_UID))
compute_triple(i) ==
    LET per_preset == Len(midi_notes) * get_nb_variations_per_note
    IN  [UID |-> At(valid_preset_UIDs, i \div per_preset),
         midi_note |-> At(midi_notes, (i % per_preset) \div get_nb_variations_per_note),
         variation |-> i % get_nb_variations_per_note]

triple_key(t) == spec_key(t.UID, t.midi_note, t.variation)

batch_item_unchecked(wav) ==
    IF ~wav.exists THEN [err |-> "FileNotFoundError", val |-> << >>]
    ELSE [err |-> "", val |-> compute_spectrogram(wav.x_wav)]

\* get_wav_file, the sampling frequency check and compute_spectrogram
batch_item(wav) ==
    IF ~wav.exists THEN [err |-> "FileNotFoundError", val |-> << >>]
    ELSE IF wav.Fs # sampling_rate
    THEN [err |-> "ValueError: Single '}' encountered in format string", val |-> << >>]
    ELSE [err |-> "", val |-> compute_spectrogram(wav.x_wav)]

\* one row of full_stats
stats_row(preset_UID, tensor_spectrogram) ==
    [UID |-> preset_UID,
     min |-> SeqMin(tensor_spectrogram),
     max |-> SeqMax(tensor_spectrogram),
     var |-> torch_var(tensor_spectrogram),
     mean |-> np_mean(tensor_spectrogram)]

Column(rows, c) == [k \in DOMAIN rows |-> rows[k][c]]

dataset_stats_mean_of_stds(full_stats) ==
    [min |-> SeqMin(Column(full_stats, "min")),
     max |-> SeqMax(Column(full_stats, "max")),
     mean |-> np_mean(Column(full_stats, "mean")),
     std |-> np_mean([k \in DOMAIN full_stats |-> np_sqrt(full_stats[k].var[1])])]

dataset_stats_first_row(full_stats) ==
    [min |-> full_stats[1].min,
     max |-> full_stats[1].max,
     mean |-> np_mean(Column(full_stats, "mean")),
     std |-> np_sqrt(np_mean(Column(full_stats, "var"))[1])]

\* _store_spectrograms_stats: the dataset-wide record
dataset_stats(full_stats) ==
    [min |-> SeqMin(Column(full_stats, "min")),
     max |-> SeqMax(Column(full_stats, "max")),
     mean |-> np_mean(Column(full_stats, "mean")),
     std |-> np_sqrt(np_mean(Column(full_stats, "var"))[1])]

\* _store_spectrograms_stats: the rows of the _full.csv file
csv_rows(full_stats) ==
    [k \in DOMAIN full_stats |->
        [UID |-> full_stats[k].UID, min |-> full_stats[k].min,
         max |-> full_stats[k].max, mean |-> full_stats[k].mean,
         std |-> np_sqrt(full_stats[k].var[1])]]

rmtree_skipped(folder) == folder

\* shutil.rmtree followed by os.makedirs: the folder is left empty
rmtree(folder) == {}

truncate_skipped(file) == [file EXCEPT !.exists = TRUE]

\* open(path, 'w').close() of the .json stats file
truncate(file) == [exists |-> TRUE, empty |-> TRUE, dict |-> EmptyDict, run |-> file.run]

\* compute_and_store_spectrograms_and_stats runs in one process while a process
\* with a dataset object of the same description reads (the calls above).  A
\* read is one step; the steps below are taken between reads, when the reader
\* has taken its result, so that ret shows what was on disk at the current
\* position of the generation.
reader_vars == << ret, last_variation, excl_vars >>
object_vars == << model_config, child_args, phase, dataset_vars, class_vars >>

Compute_init_specs_and_stats_files_reusing ==
    /\ phase = "ready"
    /\ ret = NoCall
    /\ compute.pc = "idle"
    /\ IF AllSpecKeys(valid_preset_UIDs, midi_notes, get_nb_variations_per_note)
             \subseteq spec_files
       THEN /\ compute' = [compute EXCEPT !.pc = "normalize", !.stage = "normalize",
                                          !.run = @ + 1, !.before = spec_files]
            /\ spec_tensor' = [k \in spec_files |->
                                  [spec_tensor[k] EXCEPT !.run = compute.run + 1]]
            /\ UNCHANGED << spec_files, stats_file, full_stats_file >>
       ELSE /\ spec_files' = {}
            /\ spec_tensor' = [k \in spec_files' |-> spec_tensor[k]]
            /\ stats_file' = [exists |-> TRUE, empty |-> TRUE, dict |-> EmptyDict,
                              run |-> stats_file.run]
            /\ full_stats_file' = [exists |-> TRUE, empty |-> TRUE, rows |-> << >>,
                                   run |-> full_stats_file.run]
            /\ compute' = [compute EXCEPT !.pc = "batch", !.stage = "batch",
                                          !.run = @ + 1, !.before = spec_files]
    /\ UNCHANGED << model_config, child_args, phase, dataset_vars, class_vars, ret,
                    last_variation, excl_vars, learnable_disk_vars,
                    spectrogram_normalization,
                    spec_stats, wav_files >>

\* lines 438-441: _init_specs_and_stats_files
Compute_init_specs_and_stats_files ==
    /\ phase = "ready"
    /\ ret = NoCall
    /\ compute.pc = "idle"
    /\ spec_files' = rmtree(spec_files)
    /\ spec_tensor' = [k \in spec_files' |-> spec_tensor[k]]
    /\ stats_file' = truncate(stats_file)
    /\ full_stats_file' = [exists |-> TRUE, empty |-> TRUE, rows |-> << >>,
                           run |-> full_stats_file.run]
    /\ compute' = [pc |-> "batch", stage |-> "batch", i |-> 0, full_stats |-> << >>,
                   run |-> compute.run + 1, before |-> spec_files, err |-> "",
                   previous |-> compute.previous]
    /\ UNCHANGED << object_vars, reader_vars, learnable_disk_vars,
                    spectrogram_normalization,
                    spec_stats, wav_files >>

\* lines 468-483: one pass of the innermost loop
Compute_batch_item ==
    /\ ret = NoCall
    /\ compute.pc = "batch"
    /\ compute.i < nb_valid_audio_files
    /\ LET t == compute_triple(compute.i)
           r == batch_item(wav_files[triple_key(t)])
       IN  IF r.err # ""
           THEN /\ compute' = [compute EXCEPT !.pc = "failed", !.err = r.err]
                /\ UNCHANGED << spec_files, spec_tensor >>
           ELSE /\ spec_files' = spec_files \cup {triple_key(t)}
                /\ spec_tensor' = [k \in spec_files' |->
                       IF k = triple_key(t)
                       THEN [value |-> r.val, raw |-> r.val, run |-> compute.run,
                             normalized |-> 0]
                       ELSE spec_tensor[k]]
                /\ compute' = [compute EXCEPT
                                  !.i = @ + 1,
                                  !.full_stats = Append(@, stats_row(t.UID, r.val))]
    /\ UNCHANGED << object_vars, reader_vars, learnable_disk_vars, stats_vars,
                    wav_files >>

\* lines 446-449: the progress line divides by nb_valid_audio_files, then
\* _store_spectrograms_stats
Compute_store_spectrograms_stats ==
    /\ ret = NoCall
    /\ compute.pc = "batch"
    /\ compute.i = nb_valid_audio_files
    /\ IF nb_valid_audio_files = 0
       THEN /\ compute' = [compute EXCEPT !.pc = "failed", !.stage = "store",
                                          !.err = "ZeroDivisionError"]
            /\ UNCHANGED << spec_stats, stats_file, full_stats_file >>
       ELSE /\ full_stats_file' = [exists |-> TRUE, empty |-> FALSE,
                                   rows |-> csv_rows(compute.full_stats),
                                   run |-> compute.run]
            /\ spec_stats' = LoadedStats(dataset_stats(compute.full_stats))
            /\ stats_file' = [exists |-> TRUE, empty |-> FALSE,
                              dict |-> dataset_stats(compute.full_stats),
                              run |-> compute.run]
            /\ compute' = [compute EXCEPT !.pc = "normalize", !.stage = "normalize",
                                          !.i = 0]
    /\ UNCHANGED << object_vars, reader_vars, disk_vars, spectrogram_normalization,
                    spec_tensor, wav_files >>

\* lines 514-521: one pass of the innermost loop of _normalize_spectrograms
Compute_normalize_item ==
    /\ ret = NoCall
    /\ compute.pc = "normalize"
    /\ compute.i < nb_valid_audio_files
    /\ LET key == triple_key(compute_triple(compute.i))
           r == normalize_spectrogram(spec_tensor[key].value, spectrogram_normalization,
                                      spec_stats, stats_file)
       IN  /\ spec_stats' = r.spec_stats
           /\ IF r.err # ""
              THEN /\ compute' = [compute EXCEPT !.pc = "failed", !.err = r.err]
                   /\ UNCHANGED spec_tensor
              ELSE /\ spec_tensor' = [spec_tensor EXCEPT
                                         ![key].value = r.val,
                                         ![key].normalized = @ + 1]
                   /\ compute' = [compute EXCEPT !.i = @ + 1]
    /\ UNCHANGED << object_vars, reader_vars, disk_vars, spectrogram_normalization,
                    stats_file, full_stats_file, wav_files >>

\* lines 453-459: the final display; the method returns
Compute_final_display ==
    /\ ret = NoCall
    /\ compute.pc = "normalize"
    /\ compute.i = nb_valid_audio_files
    /\ compute' = [compute EXCEPT !.pc = "done"]
    /\ UNCHANGED << object_vars, reader_vars, disk_vars, stats_vars, spec_tensor,
                    wav_files >>

\* a reader process opens the stats file of the same description
Reader_load_spectrogram_stats ==
    /\ phase = "ready"
    /\ ret = NoCall
    /\ LET r == load_spectrogram_stats(spectrogram_normalization, NoStats, stats_file)
       IN  ret' = [op |-> "_load_spectrogram_stats", arg |-> << >>, err |-> r.err,
                   val |-> r.spec_stats]
    /\ UNCHANGED last_variation
    /\ Frame

\* ------------------------------------ spectrogram generation: specification
\* dB levels of the bins of a silent and of an audible rendered note
Waveforms == { << -130, -125 >>, << -60, 0 >> }
MissingWav == [exists |-> FALSE, Fs |-> sampling_rate, x_wav |-> << >>]
ResampledWav == [exists |-> TRUE, Fs |-> 2 * sampling_rate, x_wav |-> << -60, 0 >>]
WavRecords ==
    [exists : {TRUE}, Fs : {sampling_rate}, x_wav : Waveforms]
        \cup {MissingWav, ResampledWav}
IsGoodWav(wav) == wav.exists /\ wav.Fs = sampling_rate
AudibleWav == [exists |-> TRUE, Fs |-> sampling_rate, x_wav |-> << -60, 0 >>]
\* every note was rendered, silent or audible; or one file of audible notes is
\* missing or has another sampling rate
WavAssignments(keys) ==
    {w \in [keys -> WavRecords] :
        \/ \A k \in keys : IsGoodWav(w[k])
        \/ \E bad \in keys : /\ ~IsGoodWav(w[bad])
                             /\ \A k \in keys \ {bad} : w[k] = AudibleWav}

\* valid_preset_UIDs in an order that is not the order of the UIDs
CacheUIDLists == {[k \in 1..n |-> MaxPresets + 1 - k] : n \in 0..MaxPresets}

\* a preset of an earlier version of the dataset, excluded since
StaleKey == spec_key(0, At(required_dataset_midi_notes, 0), 0)

\* The dataset object is constructed and compute_and_store_spectrograms_and_stats
\* is called once.  The folder of its description holds nothing, or the complete
\* earlier generation of a version of the dataset that had one more preset, whose
\* stats the object has loaded.
CacheInit ==
    /\ \E notes \in NoteLists, stacked \in BOOLEAN :
          /\ ctor_check(notes, stacked)
          /\ model_config = [midi_notes |-> notes, stack_spectrograms |-> stacked,
                             increased_dataset_size |-> BoolStr(Len(notes) > 1 /\ ~stacked),
                             concat_midi_to_z |-> BoolStr(Len(notes) > 1 /\ ~stacked)]
    /\ child_args \in [valid_preset_UIDs : CacheUIDLists, data_augmentation : {FALSE}]
    /\ nb_preset_variations_per_note \in 1..MaxPresetVariations
    /\ nb_audio_delay_variations_per_note \in 1..MaxDelayVariations
    /\ phase = "ready"
    /\ midi_notes = model_config.midi_notes
    /\ multichannel_stacked_spectrograms = model_config.stack_spectrograms
    /\ data_augmentation = child_args.data_augmentation
    /\ valid_preset_UIDs = child_args.valid_preset_UIDs
    /\ nb_valid_audio_files <= MaxTriples
    /\ last_variation = -1
    /\ spectrogram_normalization \in NormalizationModes
    /\ \E earlier \in {"nothing", "more"} :
          /\ spec_stats = IF earlier = "nothing" THEN NoStats
                          ELSE LoadedStats(EarlierStats)
          /\ spec_files =
                IF earlier = "nothing" THEN {}
                ELSE AllSpecKeys(valid_preset_UIDs, midi_notes, get_nb_variations_per_note)
                        \cup (IF earlier = "more" THEN {StaleKey} ELSE {})
          /\ stats_file = IF earlier = "nothing" THEN AbsentStatsFile
                          ELSE EarlierStatsFile
          /\ full_stats_file = IF earlier = "nothing" THEN AbsentFullStatsFile
                               ELSE EarlierFullStatsFile
    /\ spec_tensor = [k \in spec_files |-> EarlierEntry(spectrogram_normalization)]
    /\ preset_files = AllPresetKeys(valid_preset_UIDs, nb_preset_variations_per_note)
    /\ EarlierLearnablePresets
    /\ DefaultTransform
    /\ NoSynthParams
    /\ wav_files \in WavAssignments(AllSpecKeys(valid_preset_UIDs, midi_notes,
                                                get_nb_variations_per_note))
    /\ compute = IdleCompute
    /\ ret = NoCall
    /\ excl_file = [exists |-> FALSE, text |-> << >>]
    /\ excl_ret = NoExcl

CacheNext ==
    \/ Compute_init_specs_and_stats_files
    \/ Compute_batch_item
    \/ Compute_store_spectrograms_stats
    \/ Compute_normalize_item
    \/ Compute_final_display
    \/ Call_getitem
    \/ Reader_load_spectrogram_stats
    \/ Caller_takes_result

SpecCache == CacheInit /\ [][CacheNext]_vars

\* ------------------------------ generation run again: specification
\* compute_and_store_spectrograms_and_stats is called up to MaxRuns times in a
\* row on the same object, the rendered audio files staying as they are.
MaxRuns == 2

\* the call has returned and the caller calls again; what the call left is kept
\* for comparison
Compute_again ==
    /\ ret = NoCall
    /\ compute.pc = "done"
    /\ compute.run < MaxRuns
    /\ compute' = [IdleCompute EXCEPT
                      !.run = compute.run,
                      !.previous = [run |-> compute.run,
                                    values |-> [k \in spec_files |-> spec_tensor[k].value],
                                    stats |-> stats_file.dict,
                                    rows |-> full_stats_file.rows]]
    /\ UNCHANGED << object_vars, reader_vars, disk_vars, stats_vars, spec_tensor,
                    wav_files >>

TwiceNext ==
    \/ Compute_init_specs_and_stats_files
    \/ Compute_batch_item
    \/ Compute_store_spectrograms_stats
    \/ Compute_normalize_item
    \/ Compute_final_display
    \/ Compute_again

SpecTwice == CacheInit /\ [][TwiceNext]_vars

\* ---------------------------------------------- normalization: specification
StatsValues == {Whole(-120), Whole(0), Num(Q(1, 2))}
StatsDeviations == {Whole(0), Whole(2), Num(Q(1, 3))}
StatsRecords ==
    [min : StatsValues, max : StatsValues, mean : StatsValues, std : StatsDeviations]
\* the stats a generation of this object left in memory: the mean of the
\* per-item variances was 5/2
ComputedStats == [min |-> Whole(-120), max |-> Whole(0), mean |-> Whole(-60),
                  std |-> np_sqrt(Q(5, 2))]
\* .json files that lack keys
PartialStatsDicts ==
    { [k \in {"min", "max"} |-> Whole(0)], [k \in {"mean", "std"} |-> Whole(2)],
      [k \in {"min", "max", "mean"} |-> Whole(0)] }
SpectrogramSamples ==
    { << Whole(-120) >>, << Whole(0), Whole(-60) >>, << Num(Q(-1, 3)) >>,
      << Whole(1), Whole(-1) >> }

NormInit ==
    /\ model_config = [midi_notes |-> SubSeq(required_dataset_midi_notes, 1, 1),
                       stack_spectrograms |-> FALSE,
                       increased_dataset_size |-> "None", concat_midi_to_z |-> "None"]
    /\ child_args = [valid_preset_UIDs |-> << >>, data_augmentation |-> FALSE]
    /\ nb_preset_variations_per_note = 1
    /\ nb_audio_delay_variations_per_note = 1
    /\ phase = "ready"
    /\ midi_notes = model_config.midi_notes
    /\ multichannel_stacked_spectrograms = FALSE
    /\ data_augmentation = FALSE
    /\ valid_preset_UIDs = << >>
    /\ last_variation = -1
    /\ spec_files = {}
    /\ preset_files = {}
    /\ EarlierLearnablePresets
    /\ DefaultTransform
    /\ NoSynthParams
    /\ spectrogram_normalization \in NormalizationModes
    /\ \/ /\ spec_stats = NoStats
          /\ \/ stats_file = AbsentStatsFile
             \/ stats_file = [AbsentStatsFile EXCEPT !.exists = TRUE]
             \/ stats_file \in [exists : {TRUE}, empty : {FALSE},
                                dict : StatsRecords \cup PartialStatsDicts, run : {0}]
       \/ /\ spec_stats = LoadedStats(ComputedStats)
          /\ stats_file = [exists |-> TRUE, empty |-> FALSE, dict |-> ComputedStats,
                           run |-> 0]
    /\ full_stats_file = AbsentFullStatsFile
    /\ spec_tensor = [k \in spec_files |-> EarlierEntry(spectrogram_normalization)]
    /\ wav_files = NoWavFiles
    /\ compute = IdleCompute
    /\ ret = NoCall
    /\ excl_file = [exists |-> FALSE, text |-> << >>]
    /\ excl_ret = NoExcl

NormFrame ==
    UNCHANGED << object_vars, last_variation, excl_vars, disk_vars,
                 spectrogram_normalization, stats_file, full_stats_file, pipeline_vars >>

Call_load_spectrogram_stats ==
    /\ phase = "ready"
    /\ ret = NoCall
    /\ LET r == load_spectrogram_stats(spectrogram_normalization, spec_stats, stats_file)
       IN  /\ spec_stats' = r.spec_stats
           /\ ret' = [op |-> "_load_spectrogram_stats", arg |-> << >>, err |-> r.err,
                      val |-> << >>]
    /\ NormFrame

Call_normalize_spectrogram ==
    /\ phase = "ready"
    /\ ret = NoCall
    /\ \E spectrogram \in SpectrogramSamples :
          LET r == normalize_spectrogram(spectrogram, spectrogram_normalization,
                                         spec_stats, stats_file)
          IN  /\ spec_stats' = r.spec_stats
              /\ ret' = [op |-> "normalize_spectrogram", arg |-> << spectrogram >>,
                         err |-> r.err, val |-> r.val]
    /\ NormFrame

Call_denormalize_spectrogram ==
    /\ phase = "ready"
    /\ ret = NoCall
    /\ \E spectrogram \in SpectrogramSamples :
          LET r == denormalize_spectrogram(spectrogram, spectrogram_normalization,
                                           spec_stats, stats_file)
          IN  /\ spec_stats' = r.spec_stats
              /\ ret' = [op |-> "denormalize_spectrogram", arg |-> << spectrogram >>,
                         err |-> r.err, val |-> r.val]
    /\ NormFrame

Norm_caller_takes_result ==
    /\ ret # NoCall
    /\ ret' = NoCall
    /\ UNCHANGED spec_stats
    /\ NormFrame

NormNext ==
    \/ Call_load_spectrogram_stats
    \/ Call_normalize_spectrogram
    \/ Call_denormalize_spectrogram
    \/ Norm_caller_takes_result

SpecNorm == NormInit /\ [][NormNext]_vars

\* -------------------------------------------- stats aggregation: specification
MaxRows == 3

\* numpy.isclose defaults
isclose_rtol == Q(1, 100000)
isclose_atol == Q(1, 100000000)

np_isclose_exact(a, b) == a = b

\* np.isclose(a, b): |a - b| <= atol + rtol * |b|
np_isclose(a, b) ==
    QLe(QAbs(QSub(a[1], b[1])), QAdd(isclose_atol, QMul(isclose_rtol, QAbs(b[1]))))

\* lines 548-549: the UIDs of the rows whose max is the silence floor
zero_volume_UIDs(rows) ==
    {rows[k].UID : k \in {j \in DOMAIN rows : np_isclose(rows[j].max, Whole(min_dB))}}

\* lines 551-557, the UIDs of the set taken in the order 'order': the indices
\* appended and the UIDs warned about
RECURSIVE exclude_loop(_, _)
exclude_loop(order, acc) ==
    IF order = << >> THEN acc
    ELSE LET UID == Head(order)
             idx == {p \in 0..(valid_presets_count - 1) : At(valid_preset_UIDs, p) = UID}
         IN  exclude_loop(Tail(order),
                 IF idx = {}
                 THEN [acc EXCEPT !.warnings = Append(@, UID)]
                 ELSE [acc EXCEPT !.indices = Append(@, CHOOSE p \in idx : TRUE)])

\* zero_volume_preset_indices, the set of UIDs being iterated in the order 'order'
zero_volume_preset_indices(file, order) ==
    IF ~file.exists THEN [err |-> "FileNotFoundError", indices |-> << >>, warnings |-> << >>]
    ELSE IF file.empty THEN [err |-> "EmptyDataError", indices |-> << >>, warnings |-> << >>]
    ELSE LET out == exclude_loop(order, [indices |-> << >>, warnings |-> << >>])
         IN  [err |-> "", indices |-> out.indices, warnings |-> out.warnings]

\* spectrograms: silent, at -119.9 dB, at -119.999 dB, and two audible ones of
\* variances 1 and 4
SilentSpectrogram == << Whole(min_dB), Whole(min_dB) >>
SpectrogramChoices ==
    { SilentSpectrogram,
      << Num(Q(-1199, 10)), Num(Q(-1199, 10)) >>,
      << Num(Q(-119999, 1000)), Num(Q(-119999, 1000)) >>,
      << Whole(0), Whole(1), Whole(2) >>,
      << Whole(0), Whole(2), Whole(4) >> }

\* the _full.csv file of an earlier version of the dataset, which had the
\* silent preset 0 and preset MaxPresets
EarlierVersionFullStatsFile ==
    [exists |-> TRUE, empty |-> FALSE,
     rows |-> csv_rows(<< stats_row(0, SilentSpectrogram),
                          stats_row(MaxPresets, SilentSpectrogram) >>),
     run |-> 0]

StatsInit ==
    /\ \E notes \in NoteLists :
          model_config = [midi_notes |-> notes, stack_spectrograms |-> FALSE,
                          increased_dataset_size |-> BoolStr(Len(notes) > 1),
                          concat_midi_to_z |-> BoolStr(Len(notes) > 1)]
    /\ child_args \in [valid_preset_UIDs : CacheUIDLists, data_augmentation : {FALSE}]
    /\ nb_preset_variations_per_note = 1
    /\ nb_audio_delay_variations_per_note = 1
    /\ phase = "ready"
    /\ midi_notes = model_config.midi_notes
    /\ multichannel_stacked_spectrograms = FALSE
    /\ data_augmentation = FALSE
    /\ valid_preset_UIDs = child_args.valid_preset_UIDs
    /\ nb_valid_audio_files <= MaxRows
    /\ last_variation = -1
    /\ spec_files = {}
    /\ preset_files = {}
    /\ EarlierLearnablePresets
    /\ DefaultTransform
    /\ NoSynthParams
    /\ spectrogram_normalization = "min_max"
    /\ spec_stats = NoStats
    /\ stats_file = AbsentStatsFile
    /\ full_stats_file \in {AbsentFullStatsFile, EarlierVersionFullStatsFile}
    /\ spec_tensor = [k \in spec_files |-> EarlierEntry(spectrogram_normalization)]
    /\ wav_files = NoWavFiles
    /\ compute = IdleCompute
    /\ ret = NoCall
    /\ excl_file = [exists |-> FALSE, text |-> << >>]
    /\ excl_ret = NoExcl

StatsFrame ==
    UNCHANGED << object_vars, last_variation, excl_vars, disk_vars,
                 spectrogram_normalization, pipeline_vars >>

\* _store_spectrograms_stats(full_stats), full_stats being what
\* _compute_and_store_spectrograms_and_stats_batch returns for some spectrograms
Call_store_spectrograms_stats ==
    /\ phase = "ready"
    /\ ret = NoCall
    /\ nb_valid_audio_files > 0
    /\ full_stats_file.run = 0
    /\ \E tensors \in [1..nb_valid_audio_files -> SpectrogramChoices] :
          LET full_stats == [k \in 1..nb_valid_audio_files |->
                                stats_row(compute_triple(k - 1).UID, tensors[k])]
          IN  /\ full_stats_file' = [exists |-> TRUE, empty |-> FALSE,
                                     rows |-> csv_rows(full_stats), run |-> 1]
              /\ spec_stats' = LoadedStats(dataset_stats(full_stats))
              /\ stats_file' = [exists |-> TRUE, empty |-> FALSE,
                                dict |-> dataset_stats(full_stats), run |-> 1]
              /\ ret' = [op |-> "_store_spectrograms_stats", arg |-> << full_stats >>,
                         err |-> "", val |-> << >>]
    /\ StatsFrame

Call_zero_volume_preset_indices ==
    /\ phase = "ready"
    /\ ret = NoCall
    /\ \E order \in InjectiveSeqs(zero_volume_UIDs(full_stats_file.rows), MaxRows) :
          /\ Range(order) = zero_volume_UIDs(full_stats_file.rows)
          /\ LET r == zero_volume_preset_indices(full_stats_file, order)
             IN  ret' = [op |-> "zero_volume_preset_indices", arg |-> << >>,
                         err |-> r.err,
                         val |-> [indices |-> r.indices, warnings |-> r.warnings]]
    /\ UNCHANGED << spec_stats, stats_file, full_stats_file >>
    /\ StatsFrame

Stats_caller_takes_result ==
    /\ ret # NoCall
    /\ ret' = NoCall
    /\ UNCHANGED << spec_stats, stats_file, full_stats_file >>
    /\ StatsFrame

StatsNext ==
    \/ Call_store_spectrograms_stats
    \/ Call_zero_volume_preset_indices
    \/ Stats_caller_takes_result

SpecStats == StatsInit /\ [][StatsNext]_vars

\* ------------------------------------------------------ learnable presets
\* number of VST parameters of the synthesizer is 1..MaxParams
MaxParams == 2

\* A learnable tensor is the sequence of its rows, a row << class, value >> of
\* two quotients: column 0 holds the class of a parameter learned as categorical.
\* VST indexes and matrix rows are 0-based.
cat_params == {vst_index \in 0..(Len(vst_param_learnable_model) - 1) :
                  At(vst_param_learnable_model, vst_index) = "cat"}

\* get_preset_param_cardinality(vst_index)
get_preset_param_cardinality(vst_index) == At(vst_param_cardinals, vst_index)

\* np.zeros(n, dtype=int)
np_zeros(n) == [k \in 1..n |-> 0]

\* int(x.item()): the float truncated towards zero
int_item(q) == IF q[1] >= 0 THEN q[1] \div q[2] ELSE -((-q[1]) \div q[2])

increment_presence(array, index) ==
    IF index >= Len(array) \/ index < -Len(array)
    THEN [err |-> "IndexError", val |-> array]
    ELSE LET at == IF index < 0 THEN Len(array) + index ELSE index
         IN  [err |-> "", val |-> [array EXCEPT ![at + 1] = 1]]

\* array[index] += 1 of a numpy array: a negative index counts from the end
increment(array, index) ==
    IF index >= Len(array) \/ index < -Len(array)
    THEN [err |-> "IndexError", val |-> array]
    ELSE LET at == IF index < 0 THEN Len(array) + index ELSE index
         IN  [err |-> "", val |-> [array EXCEPT ![at + 1] = @ + 1]]

\* lines 746-749: the classes of one tensor are counted, the parameters taken
\* in the order of their VST indexes
RECURSIVE count_classes(_, _, _)
count_classes(vst_idx, preset_tensor_value, samples_per_class) ==
    IF vst_idx >= Len(vst_param_learnable_model) THEN [err |-> "", val |-> samples_per_class]
    ELSE IF vst_idx \notin cat_params
    THEN count_classes(vst_idx + 1, preset_tensor_value, samples_per_class)
    ELSE LET row == vst_idx_to_matrix_row[vst_idx]
             class_idx == int_item(At(preset_tensor_value, row)[1])
             counted == increment(samples_per_class[vst_idx], class_idx)
         IN  IF counted.err # "" THEN [err |-> counted.err, val |-> samples_per_class]
             ELSE count_classes(vst_idx + 1, preset_tensor_value,
                                [samples_per_class EXCEPT ![vst_idx] = counted.val])

\* lines 751-753: Preset2d(self, learnable_tensor_preset=preset_tensor).to_raw(),
\* whose result is not used
to_raw(preset_tensor_value) == [err |-> ""]

\* the i-th pass of the loops of lines 741-742 over valid_preset_UIDs and
\* range(_nb_preset_variations_per_note)
preset_pair(i) ==
    << At(valid_preset_UIDs, i \div nb_preset_variations_per_note),
       i % nb_preset_variations_per_note >>

nb_learnable_presets == valid_presets_count * nb_preset_variations_per_note

\* lines 741-755 from pass i on; acc is the folder and the counts so far
RECURSIVE store_learnable_presets(_, _)
store_learnable_presets(i, acc) ==
    IF i >= nb_learnable_presets THEN acc
    ELSE LET key == preset_pair(i)
             preset_tensor_value == learnable_tensors[key]
             counted == count_classes(0, preset_tensor_value, acc.counts)
             raw == to_raw(preset_tensor_value)
         IN  IF counted.err # "" THEN [acc EXCEPT !.err = counted.err]
             ELSE IF raw.err # "" THEN [acc EXCEPT !.err = raw.err]
             ELSE store_learnable_presets(i + 1,
                     [err |-> "",
                      counts |-> counted.val,
                      files |-> [k \in DOMAIN acc.files \cup {key} |->
                                    IF k = key
                                    THEN [value |-> preset_tensor_value, run |-> 1]
                                    ELSE acc.files[k]]])

\* compute_and_store_learnable_presets(verbose)
Call_compute_and_store_learnable_presets ==
    /\ phase = "ready"
    /\ ret = NoCall
    /\ \E verbose \in BOOLEAN :
          LET folder == rmtree(preset_files)
              out == store_learnable_presets(0,
                        [err |-> "",
                         counts |-> [vst_index \in cat_params |->
                                       np_zeros(get_preset_param_cardinality(vst_index))],
                         files |-> [k \in folder |-> preset_tensor[k]]])
          IN  /\ preset_files' = DOMAIN out.files
              /\ preset_tensor' = out.files
              /\ cat_params_stats_file' =
                    IF out.err = ""
                    THEN [exists |-> TRUE, dict |-> out.counts, run |-> 1]
                    ELSE AbsentCatStatsFile
              /\ ret' = [op |-> "compute_and_store_learnable_presets",
                         arg |-> << verbose >>,
                         err |-> IF out.err # "" THEN out.err
                                 ELSE IF verbose /\ nb_learnable_presets = 0
                                 THEN "ZeroDivisionError"
                                 ELSE "",
                         val |-> [before |-> preset_files]]
    /\ UNCHANGED << object_vars, last_variation, excl_vars, spec_files, stats_vars,
                    pipeline_vars >>

\* the cat_params_class_samples_count property
Get_cat_params_class_samples_count ==
    /\ phase = "ready"
    /\ ret = NoCall
    /\ ret' = IF cat_params_stats_file.exists
              THEN [op |-> "cat_params_class_samples_count", arg |-> << >>, err |-> "",
                    val |-> cat_params_stats_file.dict]
              ELSE [op |-> "cat_params_class_samples_count", arg |-> << >>,
                    err |-> "FileNotFoundError", val |-> << >>]
    /\ UNCHANGED last_variation
    /\ Frame

\* ------------------------------------- learnable presets: specification
\* the learning models of the VST parameters of a synthesizer
LearnableModels ==
    UNION {[1..n -> {"num", "cat", "None"}] : n \in 1..MaxParams}
\* a categorical parameter at VST index k has k + 2 classes; -1 is the
\* cardinality of a continuous parameter
CardinalsOf(model) ==
    [k \in DOMAIN model |-> IF model[k] = "cat" THEN k + 1 ELSE -1]
\* the rows of the learnable parameters, in the order of their VST indexes
RowsOfModel(model) ==
    [vst_index \in {k - 1 : k \in {j \in DOMAIN model : model[j] # "None"}} |->
        Cardinality({j \in 1..vst_index : model[j] # "None"})]
\* classes that are none of the classes 0..cardinality-1 of a parameter
InvalidClasses(cardinality) == {Q(-1, 1), Q(3, 2), Q(cardinality, 1)}
\* the learnable tensor of the preset at position 'position' of the loops: the
\* classes go round the classes of each parameter
EncodedTensor(model, position) ==
    LET rows == RowsOfModel(model)
    IN  [r \in 1..Cardinality(DOMAIN rows) |->
            LET vst_index == CHOOSE v \in DOMAIN rows : rows[v] = r - 1
            IN  IF model[vst_index + 1] = "cat"
                THEN << Q(position % CardinalsOf(model)[vst_index + 1], 1), Q(0, 1) >>
                ELSE << Q(0, 1), Q(1, 2) >>]
\* what the encoder returns for the presets: valid tensors, or valid tensors but
\* for one class of one tensor
EncoderOutputs(model, keys, position) ==
    LET valid == [k \in keys |-> EncodedTensor(model, position[k])]
        rows == RowsOfModel(model)
    IN  {valid} \cup
        UNION {{[valid EXCEPT ![k][rows[v] + 1][1] = c] :
                   k \in keys, c \in InvalidClasses(CardinalsOf(model)[v + 1])} :
               v \in {w \in DOMAIN rows : model[w + 1] = "cat"}}

\* a file of an earlier generation, of a preset that is valid no more
StalePresetKey == << 0, 0 >>

PresetsInit ==
    /\ model_config = [midi_notes |-> SubSeq(required_dataset_midi_notes, 1, 1),
                       stack_spectrograms |-> FALSE,
                       increased_dataset_size |-> "None", concat_midi_to_z |-> "None"]
    /\ child_args \in [valid_preset_UIDs : CacheUIDLists, data_augmentation : {FALSE}]
    /\ nb_preset_variations_per_note \in 1..MaxPresetVariations
    /\ nb_audio_delay_variations_per_note = 1
    /\ phase = "ready"
    /\ midi_notes = model_config.midi_notes
    /\ multichannel_stacked_spectrograms = FALSE
    /\ data_augmentation = FALSE
    /\ valid_preset_UIDs = child_args.valid_preset_UIDs
    /\ last_variation = -1
    /\ spec_files = {}
    /\ preset_files \in {{}, AllPresetKeys(valid_preset_UIDs, nb_preset_variations_per_note)
                                \cup {StalePresetKey}}
    /\ EarlierLearnablePresets
    /\ DefaultTransform
    /\ vst_param_learnable_model \in LearnableModels
    /\ vst_param_cardinals = CardinalsOf(vst_param_learnable_model)
    /\ vst_idx_to_matrix_row = RowsOfModel(vst_param_learnable_model)
    /\ learnable_tensors \in
          EncoderOutputs(vst_param_learnable_model,
                         AllPresetKeys(valid_preset_UIDs, nb_preset_variations_per_note),
                         [k \in AllPresetKeys(valid_preset_UIDs,
                                              nb_preset_variations_per_note) |->
                             CHOOSE i \in 0..(nb_learnable_presets - 1) :
                                preset_pair(i) = k])
    /\ spectrogram_normalization = "min_max"
    /\ spec_stats = NoStats
    /\ stats_file = AbsentStatsFile
    /\ full_stats_file = AbsentFullStatsFile
    /\ spec_tensor = [k \in spec_files |-> EarlierEntry(spectrogram_normalization)]
    /\ wav_files = NoWavFiles
    /\ compute = IdleCompute
    /\ ret = NoCall
    /\ excl_file = [exists |-> FALSE, text |-> << >>]
    /\ excl_ret = NoExcl

PresetsNext ==
    \/ Call_compute_and_store_learnable_presets
    \/ Get_cat_params_class_samples_count
    \/ Caller_takes_result

SpecPresets == PresetsInit /\ [][PresetsNext]_vars

\* ------------------------------------------- description: specification
FFTSizes == {8, 512, 1024, 10240}
HopSizes == {1, 256, 1024}
MelCounts == {-1, 0, 8, 257, 10240}

DescInit ==
    /\ model_config = [midi_notes |-> SubSeq(required_dataset_midi_notes, 1, 1),
                       stack_spectrograms |-> FALSE,
                       increased_dataset_size |-> "None", concat_midi_to_z |-> "None"]
    /\ child_args = [valid_preset_UIDs |-> << >>, data_augmentation |-> FALSE]
    /\ nb_preset_variations_per_note = 1
    /\ nb_audio_delay_variations_per_note = 1
    /\ phase = "ready"
    /\ midi_notes = model_config.midi_notes
    /\ multichannel_stacked_spectrograms = FALSE
    /\ data_augmentation = FALSE
    /\ valid_preset_UIDs = << >>
    /\ last_variation = -1
    /\ spec_files = {}
    /\ preset_files = {}
    /\ EarlierLearnablePresets
    /\ n_fft \in FFTSizes
    /\ fft_hop \in HopSizes
    /\ n_mel_bins \in MelCounts
    /\ NoSynthParams
    /\ spectrogram_normalization \in NormalizationModes
    /\ spec_stats = NoStats
    /\ stats_file = AbsentStatsFile
    /\ full_stats_file = AbsentFullStatsFile
    /\ spec_tensor = [k \in spec_files |-> EarlierEntry(spectrogram_normalization)]
    /\ wav_files = NoWavFiles
    /\ compute = IdleCompute
    /\ ret = NoCall
    /\ excl_file = [exists |-> FALSE, text |-> << >>]
    /\ excl_ret = NoExcl

Get_spectrogram_description ==
    /\ phase = "ready"
    /\ ret = NoCall
    /\ LET description == spectrogram_description(n_fft, fft_hop, n_mel_bins,
                                                  spectrogram_normalization)
       IN  ret' = [op |-> "_spectrogram_description", arg |-> << >>, err |-> "",
                   val |-> [description |-> description,
                            folder |-> spectrograms_folder(description),
                            stats_file |-> spectrogram_stats_file(description),
                            full_stats_file |->
                                spectrogram_full_stats_file(description)]]
    /\ UNCHANGED last_variation
    /\ Frame

DescNext == Get_spectrogram_description

SpecDesc == DescInit /\ [][DescNext]_vars

\* ------------------------------------------- exclusion list: specification
ExclChars == {"1", "2", ",", " ", "#", "a", "\n"}
ExclSweepTexts == UNION {[1..k -> ExclChars] : k \in 0..MaxFileLen}
\* "12, 7\n# comment\n\nabc, 9\n"
ExclScenarioText ==
    << "1", "2", ",", " ", "7", "\n",
       "#", " ", "c", "o", "m", "m", "e", "n", "t", "\n",
       "\n",
       "a", "b", "c", ",", " ", "9", "\n" >>
ExclSampleTexts ==
    { ExclScenarioText,
      << "-", "3", ",", "+", "4", "0", "\n", " ", "\t", "\n", "1", "-", ",", "-" >>,
      << " ", "#", "5", "\n", "#", "6", ",", "7", "\n", "8", ",", ",", "9" >> }

ExclInit ==
    /\ model_config = [midi_notes |-> SubSeq(required_dataset_midi_notes, 1, 1),
                       stack_spectrograms |-> FALSE,
                       increased_dataset_size |-> "None", concat_midi_to_z |-> "None"]
    /\ child_args = [valid_preset_UIDs |-> << >>, data_augmentation |-> FALSE]
    /\ nb_preset_variations_per_note = 1
    /\ nb_audio_delay_variations_per_note = 1
    /\ phase = "ready"
    /\ midi_notes = model_config.midi_notes
    /\ multichannel_stacked_spectrograms = FALSE
    /\ data_augmentation = FALSE
    /\ valid_preset_UIDs = << >>
    /\ last_variation = -1
    /\ spec_files = {}
    /\ preset_files = {}
    /\ EarlierLearnablePresets
    /\ DefaultTransform
    /\ NoSynthParams
    /\ spectrogram_normalization = "min_max"
    /\ spec_stats = NoStats
    /\ stats_file = AbsentStatsFile
    /\ full_stats_file = AbsentFullStatsFile
    /\ spec_tensor = [k \in spec_files |-> EarlierEntry(spectrogram_normalization)]
    /\ wav_files = NoWavFiles
    /\ compute = IdleCompute
    /\ ret = NoCall
    /\ \/ excl_file \in [exists : {TRUE}, text : ExclSweepTexts \cup ExclSampleTexts]
       \/ excl_file = [exists |-> FALSE, text |-> << >>]
    /\ excl_ret = NoExcl

Get_excluded_patches_UIDs ==
    /\ phase = "ready"
    /\ ~excl_ret.done
    /\ excl_ret' = excluded_patches_UIDs(excl_file)
    /\ UNCHANGED << model_config, child_args, phase, dataset_vars, last_variation,
                    class_vars, disk_vars, ret, excl_file, stats_vars, pipeline_vars >>

ExclNext == Get_excluded_patches_UIDs

SpecExcl == ExclInit /\ [][ExclNext]_vars

Next ==
    \/ update_dynamic_config_params
    \/ Caller_takes_result
    \/ PresetDataset_init
    \/ Call_len
    \/ Call_getitem
    \/ Call_get_index_from_preset_UID
    \/ Call_get_variation_args
    \/ Call_get_variation_index_from_args

Spec == Init /\ [][Next]_vars

\* ================================================================== claims
\* ----------------------------------------------------------- VariationCodec
ValidVariation(v) == v >= 0 /\ v < get_nb_variations_per_note
ValidVariationPairs ==
    (0..(nb_preset_variations_per_note - 1)) \X (0..(nb_audio_delay_variations_per_note - 1))

\* C1: decoding a valid variation index v with _get_variation_args and encoding
\* the pair again with _get_variation_index_from_args gives v back.
C1_DecodeThenEncode ==
    (ret.op = "_get_variation_args" /\ ValidVariation(ret.arg[1]))
        => /\ ret.err = ""
           /\ get_variation_index_from_args(ret.val[1], ret.val[2]) = ret.arg[1]

C1_Witness ==
    /\ ret.op = "_get_variation_args"
    /\ ret.err = ""
    /\ ret.val[1] > 0
    /\ ret.val[2] > 0

\* C2: for every valid pair (pv, ad), _get_variation_index_from_args(pv, ad) is a
\* valid variation index that _get_variation_args decodes to exactly (pv, ad), and
\* two different valid pairs never encode to the same index.
C2_EncodeThenDecode ==
    /\ (ret.op = "_get_variation_index_from_args"
            /\ << ret.arg[1], ret.arg[2] >> \in ValidVariationPairs)
          => /\ ValidVariation(ret.val)
             /\ get_variation_args(ret.val) = [err |-> "", val |-> ret.arg]
    /\ phase = "ready"
          => \A p, q \in ValidVariationPairs :
                get_variation_index_from_args(p[1], p[2])
                    = get_variation_index_from_args(q[1], q[2]) => p = q

C2_Witness ==
    /\ ret.op = "_get_variation_index_from_args"
    /\ << ret.arg[1], ret.arg[2] >> \in ValidVariationPairs
    /\ ret.arg[1] > 0
    /\ ret.arg[2] > 0

\* C3: _get_variation_args(v) raises (and returns no pair) exactly when v < 0 or
\* v >= nb_preset_variations * nb_delay_variations; inside the range it returns a pair.
C3_RangeError ==
    ret.op = "_get_variation_args"
        => /\ ret.err # "" <=> (ret.arg[1] < 0 \/ ret.arg[1] >= nb_preset_variations_per_note
                                                     * nb_audio_delay_variations_per_note)
           /\ ret.err # "" => ret.err = "ValueError" /\ ret.val = << >>
           /\ ret.err = "" => Len(ret.val) = 2

C3_Witness ==
    /\ ret.op = "_get_variation_args"
    /\ ret.err = "ValueError"
    /\ ret.arg[1] = nb_preset_variations_per_note * nb_audio_delay_variations_per_note

\* -------------------------------------------------------------- IndexMapper
\* C4: len() is the number of valid preset UIDs when spectrograms are stacked and
\* the number of (valid UID, configured note) pairs otherwise; 100 presets and 6
\* notes give 100 stacked and 600 independent.
C4_Length ==
    ret.op = "__len__"
        => /\ ret.val = IF multichannel_stacked_spectrograms
                        THEN Cardinality(Range(valid_preset_UIDs))
                        ELSE Cardinality(Range(valid_preset_UIDs) \X DOMAIN midi_notes)
           /\ (Len(valid_preset_UIDs) = 100 /\ Len(midi_notes) = 6)
                 => ret.val = IF multichannel_stacked_spectrograms THEN 100 ELSE 600

C4_Witness ==
    /\ ret.op = "__len__"
    /\ ~multichannel_stacked_spectrograms
    /\ ret.val = 600

\* the UID and the notes a call record of __getitem__ shows: those returned, or
\* those of the file whose absence made it fail
ShownUID == IF ret.err = "" THEN ret.val.uid ELSE ret.val[1]
InRange(i) == i >= 0 /\ i < AudioDataset_len

\* C5: for i in [0, len()), __getitem__(i) resolves, not stacked, to the UID
\* valid_preset_UIDs[i // n_notes] and the single note midi_notes[i % n_notes];
\* stacked, to valid_preset_UIDs[i] and all configured notes in their order.
C5_IndexToKey ==
    (ret.op = "__getitem__" /\ InRange(ret.arg[1]))
        => LET i == ret.arg[1]
               n_notes == Len(midi_notes)
           IN  /\ ret.err \in {"", "FileNotFoundError"}
               /\ ShownUID = IF multichannel_stacked_spectrograms
                             THEN At(valid_preset_UIDs, i)
                             ELSE At(valid_preset_UIDs, i \div n_notes)
               /\ ret.err = ""
                     => ret.val.notes = IF multichannel_stacked_spectrograms
                                        THEN midi_notes
                                        ELSE << At(midi_notes, i % n_notes) >>

C5_Witness ==
    /\ ret.op = "__getitem__"
    /\ ret.err = ""
    /\ ~multichannel_stacked_spectrograms
    /\ Len(midi_notes) > 1
    /\ ret.arg[1] >= Len(midi_notes)
    /\ ret.arg[1] % Len(midi_notes) > 0

\* C6: for i in [0, len()), get_index_from_preset_UID of the UID __getitem__(i)
\* resolves to gives i back, or a list that contains i; stacked, two different
\* indexes never resolve to the same UID.
C6_IndexBijection ==
    /\ (ret.op = "__getitem__" /\ InRange(ret.arg[1]))
          => LET r == get_index_from_preset_UID(ShownUID) IN
             /\ r.err = ""
             /\ r.kind = "index" => r.val = ret.arg[1]
             /\ r.kind = "list" => ret.arg[1] \in Range(r.val)
    /\ (phase = "ready" /\ multichannel_stacked_spectrograms)
          => \A i, j \in 0..(AudioDataset_len - 1) :
                i # j => At(valid_preset_UIDs, getitem_indexes(i).preset_index)
                            # At(valid_preset_UIDs, getitem_indexes(j).preset_index)

C6_Witness ==
    /\ ret.op = "__getitem__"
    /\ ret.err = ""
    /\ ~multichannel_stacked_spectrograms
    /\ Len(midi_notes) > 1
    /\ ret.arg[1] = AudioDataset_len - 1
    /\ Len(valid_preset_UIDs) > 1

C8_OneNoteNeverStacked ==
    /\ phase = "ready"
          => ~(midi_notes_per_preset = 1 /\ multichannel_stacked_spectrograms)
    /\ (phase # "new" /\ Len(model_config.midi_notes) = 1
                      /\ model_config.stack_spectrograms) => phase = "rejected"
    /\ model_config.increased_dataset_size # "None"
          => ~(Len(model_config.midi_notes) = 1 /\ model_config.stack_spectrograms)

C8_Witness ==
    /\ phase = "rejected"
    /\ ret.err = "AssertionError"
    /\ Len(model_config.midi_notes) = 1

\* ----------------------------------------------------------- exclusion list
\* What the text of the file says, read off character positions.
ExclText == excl_file.text
NewlinePos == {p \in DOMAIN ExclText : ExclText[p] = "\n"}
\* a line starts at the first character and after every newline
LineStartPos == {s \in DOMAIN ExclText : s = 1 \/ ExclText[s - 1] = "\n"}
\* position of the newline that ends the line holding position p (one past the
\* text for an unterminated last line)
LineEnd(p) ==
    IF \E q \in NewlinePos : q >= p
    THEN CHOOSE q \in NewlinePos : q >= p /\ \A r \in NewlinePos : r >= p => q <= r
    ELSE Len(ExclText) + 1
LineNo(p) == 1 + Cardinality({q \in NewlinePos : q < p})
\* lines that hold UIDs: not empty, not a comment
DataLineStarts == {s \in LineStartPos : LineEnd(s) > s /\ ExclText[s] # "#"}
\* a token starts where a data line starts and after each of its commas
TokenStartPos ==
    {t \in 1..(Len(ExclText) + 1) :
        \E s \in DataLineStarts :
            /\ s <= t /\ t <= LineEnd(s)
            /\ t = s \/ ExclText[t - 1] = ","}
TokenEnd(t) ==
    CHOOSE q \in t..LineEnd(t) :
        /\ q = LineEnd(t) \/ ExclText[q] = ","
        /\ \A r \in t..(q - 1) : ExclText[r] # ","
\* the token's digits lie at a..b: spaces around them, an optional sign before them
IsNumeral(t, a, b) ==
    /\ t <= a /\ a <= b /\ b < TokenEnd(t)
    /\ \A k \in a..b : IsDigit(ExclText[k])
    /\ \A k \in (b + 1)..(TokenEnd(t) - 1) : IsSpace(ExclText[k])
    /\ \/ \A k \in t..(a - 1) : IsSpace(ExclText[k])
       \/ /\ a > t /\ ExclText[a - 1] \in {"+", "-"}
          /\ \A k \in t..(a - 2) : IsSpace(ExclText[k])
IsIntegerToken(t) ==
    \E a, b \in t..(TokenEnd(t) - 1) : IsNumeral(t, a, b)
RECURSIVE PositionalValue(_, _)
PositionalValue(a, b) ==
    IF a > b THEN 0
    ELSE DigitValue(ExclText[a]) * 10 ^ (b - a) + PositionalValue(a + 1, b)
TokenValue(t) ==
    LET ab == CHOOSE ab \in (t..(TokenEnd(t) - 1)) \X (t..(TokenEnd(t) - 1)) :
                  IsNumeral(t, ab[1], ab[2])
    IN  IF ab[1] > t /\ ExclText[ab[1] - 1] = "-"
        THEN 0 - PositionalValue(ab[1], ab[2])
        ELSE PositionalValue(ab[1], ab[2])
IntegerTokens == {t \in TokenStartPos : IsIntegerToken(t)}
MalformedTokens == TokenStartPos \ IntegerTokens
Rank(P, p) == Cardinality({q \in P : q <= p})

\* C9: loading the exclusion list never aborts on a malformed token: each token
\* that is not an integer produces exactly one warning and only that token is
\* skipped, every integer token is returned (in file order);
\* "12, 7\n# comment\n\nabc, 9\n" yields 12, 7, 9 and exactly one warning.
C9_MalformedTokenSkipped ==
    (excl_ret.done /\ excl_file.exists)
        => /\ excl_ret.err = ""
           /\ Len(excl_ret.UIDs) = Cardinality(IntegerTokens)
           /\ \A t \in IntegerTokens :
                 excl_ret.UIDs[Rank(IntegerTokens, t)] = TokenValue(t)
           /\ Len(excl_ret.warnings) = Cardinality(MalformedTokens)
           /\ \A t \in MalformedTokens :
                 excl_ret.warnings[Rank(MalformedTokens, t)][1] = LineNo(t)
           /\ ExclText = ExclScenarioText
                 => excl_ret.UIDs = << 12, 7, 9 >> /\ Len(excl_ret.warnings) = 1

C9_Witness ==
    /\ excl_ret.done
    /\ ExclText = ExclScenarioText
    /\ excl_ret.UIDs = << 12, 7, 9 >>
    /\ Len(excl_ret.warnings) = 1
    /\ excl_ret.warnings[1][1] = 4

\* a line that is empty, holds only whitespace, or starts with '#'
IsBlankOrCommentLine(s) ==
    \/ \A p \in s..(LineEnd(s) - 1) : IsSpace(ExclText[p])
    \/ ExclText[s] = "#"
\* every line, the empty ones included, by the position of its first character
\* or of its terminating newline
AnyLineStartPos == LineStartPos \cup {p \in NewlinePos : p = 1 \/ ExclText[p - 1] = "\n"}

\* C10: blank lines (empty or containing only whitespace) and lines starting with
\* '#' are ignored: no warning bears the number of such a line, and the UIDs
\* returned are as many as the integer tokens of the other lines.
C10_BlankAndCommentLinesIgnored ==
    (excl_ret.done /\ excl_file.exists)
        => /\ \A s \in AnyLineStartPos :
                 IsBlankOrCommentLine(s)
                    => \A k \in DOMAIN excl_ret.warnings :
                          excl_ret.warnings[k][1] # LineNo(s)
           /\ Len(excl_ret.UIDs)
                 = Cardinality({t \in IntegerTokens :
                       \E s \in LineStartPos :
                          /\ s <= t /\ t <= LineEnd(s)
                          /\ ~IsBlankOrCommentLine(s)})

\* ------------------------------------------------------- SpectrogramCache
TripleKeys == AllSpecKeys(valid_preset_UIDs, midi_notes, get_nb_variations_per_note)

\* C11: once compute_and_store_spectrograms_and_stats has cleared the folder no
\* entry of an earlier generation is left in it, and when the call has completed
\* without error the folder holds an entry for every (valid UID, note,
\* variation) triple and none that existed before the call without having been
\* rewritten by it.
C11_WipeThenRegenerateAll ==
    /\ compute.pc # "idle"
          => \A k \in spec_files : spec_tensor[k].run = compute.run
    /\ compute.pc = "done"
          => /\ TripleKeys \subseteq spec_files
             /\ \A k \in compute.before \cap spec_files :
                    spec_tensor[k].run = compute.run

C11_Witness ==
    /\ compute.pc = "done"
    /\ StaleKey \in compute.before
    /\ Cardinality(TripleKeys) > 1

\* C12: a reader working while compute_and_store_spectrograms_and_stats is in
\* progress on the same description never gets a missing entry from
\* __getitem__, nor an entry that is still raw, nor an empty stats file from a
\* stats load.
C12_ReadersNeverSeeRegeneration ==
    (compute.pc \in {"batch", "normalize"} /\ ret # NoCall)
        => /\ ~(/\ ret.op = "__getitem__"
                /\ ret.err = "FileNotFoundError"
                /\ ret.val \in TripleKeys)
           /\ ~(/\ ret.op = "__getitem__"
                /\ ret.err = ""
                /\ \E k \in DOMAIN ret.val.tensors :
                      ret.val.tensors[k].normalized = 0)
           /\ ~(/\ ret.op = "_load_spectrogram_stats"
                /\ ret.err = "JSONDecodeError")

\* position of a key in the order UID (as listed in valid_preset_UIDs), then
\* note (as listed in midi_notes), then variation
KeyPosition(k) ==
    << CHOOSE u \in DOMAIN valid_preset_UIDs : valid_preset_UIDs[u] = k[1],
       CHOOSE n \in DOMAIN midi_notes : midi_notes[n] = << k[2], k[3] >>,
       k[4] >>
ComesBefore(k1, k2) ==
    LET p1 == KeyPosition(k1)
        p2 == KeyPosition(k2)
    IN  \/ p1[1] < p2[1]
        \/ p1[1] = p2[1] /\ p1[2] < p2[2]
        \/ p1[1] = p2[1] /\ p1[2] = p2[2] /\ p1[3] < p2[3]
\* the triple whose audio file is missing or has another sampling rate
FailingKeys == {k \in TripleKeys : ~IsGoodWav(wav_files[k])}

\* C13: when the generation of the raw spectrograms has failed at a triple,
\* the folder holds no entry that existed before the call, it holds the entry
\* of every triple that comes before the failing one and of no other triple,
\* and the call ended with an error.
C13_FailureLeavesPartialCache ==
    (compute.pc = "failed" /\ compute.stage = "batch")
        => /\ compute.err # ""
           /\ \A k \in spec_files : spec_tensor[k].run = compute.run
           /\ \E f \in FailingKeys :
                 spec_files = {k \in TripleKeys : ComesBefore(k, f)}

C13_Witness ==
    /\ compute.pc = "failed"
    /\ compute.stage = "batch"
    /\ StaleKey \in compute.before
    /\ \E f \in FailingKeys :
          /\ \E k \in TripleKeys : ComesBefore(k, f) /\ k \in spec_files
          /\ \E k \in TripleKeys : ComesBefore(f, k) /\ k \notin spec_files

\* ----------------------------------------------------------- normalization
SupportedModes == {"min_max", "mean_std", "None"}
RoundTrip ==
    LET back == denormalize_spectrogram(ret.val, spectrogram_normalization,
                                        spec_stats, stats_file)
    IN  back.err = "" /\ back.val = ret.arg[1]
\* the divisor of the mode in use is not zero
NonDegenerateStats ==
    /\ spectrogram_normalization = "min_max"
          => spec_stats.dict["max"] # spec_stats.dict["min"]
    /\ spectrogram_normalization = "mean_std"
          => spec_stats.dict["std"] # Whole(0)

\* C14 as stated: in the modes min_max, mean_std and none, with any stats
\* record, denormalize_spectrogram gives x back from normalize_spectrogram(x).
C14_RoundTripAnyStats ==
    (/\ ret.op = "normalize_spectrogram"
     /\ ret.err = ""
     /\ spectrogram_normalization \in SupportedModes)
        => RoundTrip

\* C14, amended: the same for every stats record with max # min in the mode
\* min_max and std # 0 in the mode mean_std.
C14_RoundTrip ==
    (/\ ret.op = "normalize_spectrogram"
     /\ ret.err = ""
     /\ spectrogram_normalization \in SupportedModes
     /\ NonDegenerateStats)
        => RoundTrip

C14_Witness ==
    /\ ret.op = "normalize_spectrogram"
    /\ ret.err = ""
    /\ spectrogram_normalization = "mean_std"
    /\ NonDegenerateStats
    /\ ~IsRational(spec_stats.dict["std"])
    /\ ret.val # ret.arg[1]

\* C15: with a normalization mode other than min_max, mean_std and none,
\* normalize_spectrogram and denormalize_spectrogram raise the
\* unsupported-normalization error and return no tensor, whatever the state of
\* the stats file.
C15_UnsupportedModeError ==
    (/\ ret.op \in {"normalize_spectrogram", "denormalize_spectrogram"}
     /\ spectrogram_normalization \notin SupportedModes)
        => /\ ret.err \in {"ValueError: Cannot perform spectrogram normalization",
                            "ValueError: Cannot undo spectrogram normalization"}
           /\ ret.val = << >>

\* ------------------------------------------- normalization of the cache
\* the normalized value of x under the stats record st
NormalizedValue(x, st) ==
    IF spectrogram_normalization = "min_max"
    THEN Add(Whole(-1), Div(Mul(Whole(2), Sub(x, st["min"])), Sub(st["max"], st["min"])))
    ELSE IF spectrogram_normalization = "mean_std"
    THEN Div(Sub(x, st["mean"]), st["std"])
    ELSE x
ThisRun(k) == k \in spec_files /\ spec_tensor[k].run = compute.run

\* C16: when compute_and_store_spectrograms_and_stats has completed, every
\* entry of the cache holds the normalized value, under the stats this call
\* stored, of the spectrogram this call computed for its key, and was rewritten
\* by the normalization exactly once; throughout the normalization the folder
\* holds the entries of the triples and nothing else.
C16_NormalizedOnceInPlace ==
    /\ compute.pc = "done"
          => /\ stats_file.run = compute.run
             /\ ~stats_file.empty
             /\ \A k \in spec_files :
                   /\ ThisRun(k)
                   /\ spec_tensor[k].normalized = 1
                   /\ spec_tensor[k].raw = compute_spectrogram(wav_files[k].x_wav)
                   /\ spec_tensor[k].value =
                         [j \in DOMAIN spec_tensor[k].raw |->
                             NormalizedValue(spec_tensor[k].raw[j], stats_file.dict)]
    /\ compute.stage = "normalize" => spec_files = TripleKeys

C16_Witness ==
    /\ compute.pc = "done"
    /\ spectrogram_normalization = "mean_std"
    /\ ~IsRational(stats_file.dict["std"])
    /\ Cardinality(spec_files) > 1
    /\ \E k \in spec_files : spec_tensor[k].value # spec_tensor[k].raw

\* C17: the stats file of the current call is written only when the raw tensor
\* of every triple is on disk, no entry is normalized before it is written, and
\* the stats of an earlier generation are never in the file while an entry of
\* the current call is on disk.
C17_StatsBetweenRawAndNormalized ==
    compute.pc # "idle"
        => /\ (~stats_file.empty /\ stats_file.run = compute.run)
                  => \A k \in TripleKeys : ThisRun(k)
           /\ (\E k \in spec_files : ThisRun(k) /\ spec_tensor[k].normalized > 0)
                  => (~stats_file.empty /\ stats_file.run = compute.run)
           /\ ~(/\ ~stats_file.empty
                /\ stats_file.run < compute.run
                /\ \E k \in spec_files : ThisRun(k))
           /\ compute.pc = "done" => (~stats_file.empty /\ stats_file.run = compute.run)

C17_Witness ==
    /\ compute.pc = "normalize"
    /\ compute.i = 1
    /\ StaleKey \in compute.before
    /\ Cardinality(TripleKeys) > 1

\* --------------------------------------------------------- StatsAggregator
StoredRows == ret.arg[1]
Variance(d) == Mul(d.std, d.std)

\* C18: the record _store_spectrograms_stats stores has as min the least of the
\* per-item mins, as max the greatest of the per-item maxes, as mean the
\* arithmetic mean of the per-item means, and a std whose square is the
\* arithmetic mean of the per-item variances: variances 1 and 4 give
\* std^2 = 5/2, and not std = 3/2.
C18_GlobalStats ==
    ret.op = "_store_spectrograms_stats"
        => LET d == stats_file.dict
               n == Len(StoredRows)
           IN  /\ spec_stats = LoadedStats(d)
               /\ \E k \in 1..n : d.min = StoredRows[k].min
               /\ \A k \in 1..n : QLe(d.min[1], StoredRows[k].min[1])
               /\ \E k \in 1..n : d.max = StoredRows[k].max
               /\ \A k \in 1..n : QLe(StoredRows[k].max[1], d.max[1])
               /\ Mul(d.mean, Whole(n)) = SeqSum(Column(StoredRows, "mean"))
               /\ Mul(Variance(d), Whole(n)) = SeqSum(Column(StoredRows, "var"))
               /\ Column(StoredRows, "var") = << Whole(1), Whole(4) >>
                     => /\ Variance(d) = Num(Q(5, 2))
                        /\ d.std # Num(Q(3, 2))

C18_Witness ==
    /\ ret.op = "_store_spectrograms_stats"
    /\ Column(StoredRows, "var") = << Whole(1), Whole(4) >>

\* a sharding gives each row the number of its shard; the shards are numbered
\* 1..m in the order in which they are reduced
Shardings(n) ==
    {f \in [1..n -> 1..n] : \E m \in 1..n : Range(f) = 1..m}
RECURSIVE SubSeqOf(_, _)
SubSeqOf(rows, keep) ==
    IF rows = << >> THEN << >>
    ELSE LET rest == SubSeqOf(Tail(rows), [k \in 1..(Len(rows) - 1) |-> keep[k + 1]])
         IN  IF keep[1] THEN << Head(rows) >> \o rest ELSE rest
Shard(rows, f, j) == SubSeqOf(rows, [k \in DOMAIN rows |-> f[k] = j])
\* the (min, max, mean, variance) record of a shard, as a row
ShardRecord(rows) ==
    LET d == dataset_stats(rows)
    IN  [UID |-> 0, min |-> d.min, max |-> d.max, mean |-> d.mean, var |-> Variance(d)]
ShardRecords(rows, f) ==
    [j \in 1..Cardinality(Range(f)) |-> ShardRecord(Shard(rows, f, j))]
EqualShards(rows, f) ==
    \A i, j \in Range(f) : Len(Shard(rows, f, i)) = Len(Shard(rows, f, j))

AtSilenceFloor(row) ==
    LET gap == QAbs(QSub(row.max[1], Q(min_dB, 1)))
        tolerance == QAdd(Q(1, 100000000), QMul(Q(1, 100000), Q(Abs(min_dB), 1)))
    IN  QLe(gap, tolerance)
RowsOf(p) ==
    {full_stats_file.rows[k] : k \in {j \in DOMAIN full_stats_file.rows :
        full_stats_file.rows[j].UID = At(valid_preset_UIDs, p)}}

\* C20: zero_volume_preset_indices returns the position in valid_preset_UIDs of
\* a preset if and only if one of the preset's rows has its max at the silence
\* floor min_dB within tolerance, and returns it once; a preset whose rows all
\* have max -119.9 is not returned.
C20_ZeroVolumePresets ==
    (ret.op = "zero_volume_preset_indices" /\ ret.err = "")
        => /\ \A p \in 0..(valid_presets_count - 1) :
                 /\ (p \in Range(ret.val.indices))
                        <=> (\E row \in RowsOf(p) : AtSilenceFloor(row))
                 /\ (\A row \in RowsOf(p) : row.max = Num(Q(-1199, 10)))
                        => p \notin Range(ret.val.indices)
           /\ Range(ret.val.indices) \subseteq 0..(valid_presets_count - 1)
           /\ \A a, b \in DOMAIN ret.val.indices :
                 a # b => ret.val.indices[a] # ret.val.indices[b]

C20_Witness ==
    /\ ret.op = "zero_volume_preset_indices"
    /\ ret.err = ""
    /\ ret.val.indices = << 1 >>
    /\ \E row \in RowsOf(1) : AtSilenceFloor(row) /\ row.max # Whole(min_dB)
    /\ RowsOf(0) # {}
    /\ \A row \in RowsOf(0) : row.max = Num(Q(-1199, 10))


\* ------------------------------------------------------ NormalizationStats
AllFourKeys(d) == \A k \in {"min", "max", "mean", "std"} : k \in DOMAIN d

\* C21: with a normalization mode configured, _load_spectrogram_stats of a
\* stats file that holds a record raises the missing-key error whenever one of
\* the keys min, max, mean, std is absent from the record, and returns normally
\* only from a file whose record has all four.
C21_MissingKeyFailsLoad ==
    (ret.op = "_load_spectrogram_stats" /\ spectrogram_normalization # "None")
        => /\ (stats_file.exists /\ ~stats_file.empty)
                 => /\ ret.err = "" <=> AllFourKeys(stats_file.dict)
                    /\ ret.err # "" => ret.err = "ValueError: Missing key"
           /\ ret.err = ""
                 => /\ stats_file.exists /\ ~stats_file.empty
                    /\ AllFourKeys(stats_file.dict)

C21_Witness ==
    /\ ret.op = "_load_spectrogram_stats"
    /\ ret.err = "ValueError: Missing key"
    /\ DOMAIN stats_file.dict = {"min", "max", "mean"}

\* C29: self.spec_stats is None or a record with the four keys min, max, mean,
\* std, whatever loads and normalize/denormalize calls came before.
C29_StatsAbsentOrComplete ==
    spec_stats.none \/ AllFourKeys(spec_stats.dict)


\* ------------------------------------------------ generation: sample rate
\* the triples whose rendered audio has another sampling rate than Fs
ResampledKeys ==
    {k \in TripleKeys : wav_files[k].exists /\ wav_files[k].Fs # sampling_rate}
TriplesBefore(k) == {j \in TripleKeys : ComesBefore(j, k)}

\* C24: the generation never gets past a triple whose audio has a sample rate
\* other than Fs: no spectrogram of that triple is stored, no stats row is
\* computed for it or for a later triple, the call never reaches the stats and
\* the normalization, and when it has stopped at that triple it has raised an
\* error.
C24_SampleRateMismatchFails ==
    compute.pc # "idle"
        => \A k \in ResampledKeys :
              /\ k \notin spec_files
              /\ Len(compute.full_stats) <= Cardinality(TriplesBefore(k))
              /\ Range(Column(compute.full_stats, "UID"))
                    \subseteq {j[1] : j \in TriplesBefore(k)}
              /\ compute.pc \in {"batch", "failed"}
              /\ compute.stage = "batch"
              /\ stats_file.empty
              /\ compute.pc = "failed"
                    => /\ compute.err # ""
                       /\ spec_files = TriplesBefore(k)

C24_Witness ==
    /\ compute.pc = "failed"
    /\ compute.err = "ValueError: Single '}' encountered in format string"
    /\ \E k \in ResampledKeys : TriplesBefore(k) # {} /\ TriplesBefore(k) \subseteq spec_files

\* ------------------------------------------------------- min_max range
RawValues == UNION {Range(spec_tensor[k].raw) : k \in spec_files}
StoredValues == UNION {Range(spec_tensor[k].value) : k \in spec_files}
InUnitRange(x) == QLe(Q(-1, 1), x[1]) /\ QLe(x[1], Q(1, 1)) /\ IsRational(x)
IsGlobalMin(x) == \A y \in RawValues : QLe(x[1], y[1])
IsGlobalMax(x) == \A y \in RawValues : QLe(y[1], x[1])
MinMaxRange ==
    /\ \A x \in StoredValues : InUnitRange(x)
    /\ \A k \in spec_files : \A j \in DOMAIN spec_tensor[k].raw :
          /\ IsGlobalMin(spec_tensor[k].raw[j]) => spec_tensor[k].value[j] = Whole(-1)
          /\ IsGlobalMax(spec_tensor[k].raw[j]) => spec_tensor[k].value[j] = Whole(1)

C27_GetitemReadOnly ==
    [][(ret = NoCall /\ ret'.op = "__getitem__")
          => UNCHANGED << spec_files, spec_tensor, learnable_disk_vars, stats_vars,
                          dataset_vars, class_vars, phase, wav_files, compute >>]_vars

C27_Witness ==
    /\ ret.op = "__getitem__"
    /\ ret.err = ""
    /\ last_variation > 0
    /\ Len(ret.val.spectrograms) > 1

\* C28: for i in [0, len()), the variation __getitem__(i) uses is 0 without
\* data augmentation and a valid variation index with it, every spectrogram of
\* the item is the one of that variation, decoding the variation raises no
\* range error, and the learnable preset returned is the one of a preset
\* variation < nb_preset_variations which, with some audio delay, encodes to
\* the variation of the spectrograms.
C28_VariationValid ==
    (ret.op = "__getitem__" /\ InRange(ret.arg[1]))
        => /\ ValidVariation(last_variation)
           /\ ~data_augmentation => last_variation = 0
           /\ ret.err # "ValueError"
           /\ ret.err = ""
                 => /\ \A k \in DOMAIN ret.val.spectrograms :
                          /\ ret.val.spectrograms[k][4] = last_variation
                          /\ ret.val.spectrograms[k][1] = ret.val.preset_params[1]
                    /\ ret.val.preset_params[2] \in 0..(nb_preset_variations_per_note - 1)
                    /\ \E audio_delay \in 0..(nb_audio_delay_variations_per_note - 1) :
                          get_variation_index_from_args(ret.val.preset_params[2],
                                                        audio_delay) = last_variation

C28_Witness ==
    /\ ret.op = "__getitem__"
    /\ ret.err = ""
    /\ data_augmentation
    /\ ret.val.preset_params[2] > 0
    /\ last_variation % nb_audio_delay_variations_per_note > 0
    /\ Len(ret.val.spectrograms) > 1


\* ---------------------------------------------------- generation run again
\* the rows of full_stats computed from the raw spectrograms of this call
RawRows ==
    [i \in 1..nb_valid_audio_files |->
        stats_row(compute_triple(i - 1).UID,
                  spec_tensor[triple_key(compute_triple(i - 1))].raw)]

\* C30: when compute_and_store_spectrograms_and_stats has completed right
\* after an earlier completed call on the same configuration and audio files,
\* the cache holds the same entries with the same values and the stats files
\* and self.spec_stats hold the same stats as after the earlier call; every
\* entry was written by this call and normalized once, and the stats were
\* computed over the raw spectrograms of this call.
C30_SecondRunSameResult ==
    (compute.pc = "done" /\ compute.previous.run > 0)
        => /\ DOMAIN compute.previous.values = spec_files
           /\ \A k \in spec_files :
                 /\ spec_tensor[k].value = compute.previous.values[k]
                 /\ spec_tensor[k].run = compute.run
                 /\ spec_tensor[k].normalized = 1
           /\ stats_file.dict = compute.previous.stats
           /\ full_stats_file.rows = compute.previous.rows
           /\ spec_stats = LoadedStats(compute.previous.stats)
           /\ compute.full_stats = RawRows
           /\ stats_file.dict = dataset_stats(RawRows)

C30_Witness ==
    /\ compute.pc = "done"
    /\ compute.previous.run > 0
    /\ spectrogram_normalization = "mean_std"
    /\ Cardinality(spec_files) > 1
    /\ ~IsRational(stats_file.dict["std"])
    /\ \E k \in spec_files : spec_tensor[k].value # spec_tensor[k].raw


\* ------------------------------------------------- spectrogram description
\* what a configuration's cache is keyed by: FFT size, hop size, mel-bin count
\* (0 standing for every count <= 0, the linear scale) and normalization mode
DescriptionKey(fft, hop, mel_bins, normalization) ==
    << fft, hop, IF mel_bins <= 0 THEN 0 ELSE mel_bins, normalization >>
DescConfigs == FFTSizes \X HopSizes \X MelCounts \X NormalizationModes
DefaultDescription ==
    << "n", "f", "f", "t", "0", "5", "1", "2", "h", "o", "p", "0", "2", "5", "6", "m", "e", "l", "s", "N", "o", "n", "e", "_", "n", "o", "r", "m", "_", "m", "i", "n", "_", "m", "a", "x" >>

\* C25: the description string of the object, and with it the names of the
\* cache folder and of the two stats files, is the one of every configuration
\* with the same FFT size, hop size, mel-bin count (every count <= 0 being the
\* linear scale) and normalization mode, and of no other configuration; FFT
\* size 512, hop 256, no mel bins and min_max give
\* nfft0512hop0256melsNone_norm_min_max.
C25_DescriptionIsKey ==
    ret.op = "_spectrogram_description"
        => /\ \A c \in DescConfigs :
                 LET d == spectrogram_description(c[1], c[2], c[3], c[4])
                     same == DescriptionKey(c[1], c[2], c[3], c[4])
                                = DescriptionKey(n_fft, fft_hop, n_mel_bins,
                                                 spectrogram_normalization)
                 IN  /\ (d = ret.val.description) <=> same
                     /\ (spectrograms_folder(d) = ret.val.folder) <=> same
                     /\ (spectrogram_stats_file(d) = ret.val.stats_file) <=> same
                     /\ (spectrogram_full_stats_file(d) = ret.val.full_stats_file)
                           <=> same
           /\ DescriptionKey(n_fft, fft_hop, n_mel_bins, spectrogram_normalization)
                 = << 512, 256, 0, "min_max" >>
                 => ret.val.description = DefaultDescription

C25_Witness ==
    /\ ret.op = "_spectrogram_description"
    /\ ret.val.description = DefaultDescription
    /\ n_mel_bins = 0

\* ---------------------------------------------------------------- C22, C23
RECURSIVE SumOf(_)
SumOf(array) == IF array = << >> THEN 0 ELSE Head(array) + SumOf(Tail(array))

StoredLearnablePresets == ret.op = "compute_and_store_learnable_presets" /\ ret.err = ""

\* C22: when compute_and_store_learnable_presets returns, the learnable preset
\* folder holds one file for every pair of a valid UID and a preset variation and
\* no other file, every file written by this call with the tensor the encoder
\* gave for its pair; no file of before the call is left; and the statistics
\* file holds, for every parameter learned as categorical and for no other, an
\* array as long as the cardinality of the parameter whose counts add up to
\* len(valid_preset_UIDs) * nb_preset_variations_per_note.
C22_LearnablePresetsRegenerated ==
    StoredLearnablePresets =>
        /\ preset_files = AllPresetKeys(valid_preset_UIDs, nb_preset_variations_per_note)
        /\ Cardinality(preset_files) = nb_learnable_presets
        /\ \A k \in preset_files :
              preset_tensor[k] = [value |-> learnable_tensors[k], run |-> 1]
        /\ cat_params_stats_file.exists
        /\ cat_params_stats_file.run = 1
        /\ DOMAIN cat_params_stats_file.dict = cat_params
        /\ \A vst_index \in cat_params :
              /\ Len(cat_params_stats_file.dict[vst_index])
                    = get_preset_param_cardinality(vst_index)
              /\ SumOf(cat_params_stats_file.dict[vst_index]) = nb_learnable_presets

\* the folder held an earlier generation with a file that is valid no more, and
\* some class of a categorical parameter was counted more than once
C22_Witness ==
    /\ StoredLearnablePresets
    /\ StalePresetKey \in ret.val.before
    /\ StalePresetKey \notin preset_files
    /\ nb_learnable_presets > 2
    /\ \E vst_index \in cat_params :
          \E c \in DOMAIN cat_params_stats_file.dict[vst_index] :
             cat_params_stats_file.dict[vst_index][c] > 1

\* the class held by a tensor for a categorical parameter is one of the classes
\* of the parameter: its one-hot sub-vector has exactly one nonzero element
OneHot(preset_tensor_value) ==
    \A vst_index \in cat_params :
       \E c \in 0..(get_preset_param_cardinality(vst_index) - 1) :
          At(preset_tensor_value, vst_idx_to_matrix_row[vst_index])[1] = Q(c, 1)

\* C23: every learnable tensor of the cache is one-hot for every parameter
\* learned as categorical, and a generation the encoder gives a tensor that is
\* not one-hot fails.
C23_OneHotOrFail ==
    ret.op = "compute_and_store_learnable_presets" =>
        /\ \A k \in preset_files : OneHot(preset_tensor[k].value)
        /\ (\E k \in DOMAIN learnable_tensors : ~OneHot(learnable_tensors[k]))
              => ret.err # ""

====
